---- MODULE Spec2Model ----
(***************************************************************************)
(* Model of the LanguageTool plugin's live decoration store (the CodeMirror *)
(* state fields underlineField and ignoredUnderlineField), of the check     *)
(* orchestration in runDetection, of the synonym menu and of the debounced  *)
(* automatic check handler, of the reconciliation of the personal word      *)
(* list with the service's word list, and of the Markdown annotator.        *)
(*                                                                          *)
(* Offsets are 0-based document offsets as in the source.  A document is a  *)
(* sequence of characters; the character between offsets p and p+1 is       *)
(* doc[p+1].                                                                *)
(***************************************************************************)
EXTENDS Integers, Sequences, FiniteSets, Bags, TLC

(***************************************************************************)
(* Bounds of the model.                                                     *)
(***************************************************************************)
MaxDoc == 3          \* longest document
MaxAccepted == 4     \* longest document after a replacement was accepted
MaxMatches == 2      \* most matches in one check response
MaxPending == 1      \* most requests in flight at once
MaxConcurrent == 2   \* most requests in flight at once, for the status bar
MaxUnderlines == 2   \* most stored underlines (with multiplicity)
MaxIgnored == 1      \* most ignored spans
MaxBurst == 2        \* most edits the automatic check waits for
MaxPasted == 4       \* longest document after a paste
MaxOffset == 3       \* greatest offset of the ranges that are compared
MaxWords == 2        \* most words in the personal dictionary
MaxPasses == 2       \* most reconciliation passes of the word lists
autoCheckDelay == 2  \* the setting autoCheckDelay, in units of time

\* the initial minRange (and, negated, maxRange) of the automatic check
Infinity == 1000

Min(a, b) == IF a <= b THEN a ELSE b
Max(a, b) == IF a >= b THEN a ELSE b

(***************************************************************************)
(* Host editor primitives (CodeMirror Text / ChangeSet), single change.     *)
(***************************************************************************)
NoChange == [from |-> 0, to |-> 0, insert |-> <<>>]

\* tr.docChanged: the change set is not empty
docChanged(c) == c.to > c.from \/ Len(c.insert) > 0

\* Text.replace for one change {from, to, insert}
ApplyChange(d, c) ==
    SubSeq(d, 1, c.from) \o c.insert \o SubSeq(d, c.to + 1, Len(d))

\* state.sliceDoc(from, to): the end is clamped to the document
sliceDoc(d, from, to) == SubSeq(d, from + 1, Min(to, Len(d)))

\* ChangeDesc.mapPos(pos, assoc) in MapMode.Simple for a change set with one
\* replaced section [c.from, c.to) -> insert
mapPos(c, pos, assoc) ==
    LET len == c.to - c.from
        ins == Len(c.insert)
    IN  IF ~docChanged(c) THEN pos
        ELSE IF pos < c.from THEN pos
        ELSE IF pos < c.to \/ (pos = c.to /\ assoc < 0 /\ len = 0)
             THEN (IF pos = c.from \/ assoc < 0 THEN c.from ELSE c.from + ins)
        ELSE pos + ins - len

\* doc.lineAt(pos).from : start of the line holding pos
lineFrom(d, pos) ==
    LET starts == {p \in 0..Min(pos, Len(d)) : p = 0 \/ d[p] = "\n"}
    IN  CHOOSE p \in starts : \A q \in starts : q <= p

\* doc.lineAt(pos).to : end of the line holding pos (before its line break)
lineTo(d, pos) ==
    LET q0 == Min(pos, Len(d))
        ends == {p \in q0..Len(d) : p = Len(d) \/ d[p + 1] = "\n"}
    IN  CHOOSE p \in ends : \A q \in ends : p <= q

\* text.trim() is empty
isBlank(text) == \A i \in 1..Len(text) : text[i] = "\n"

(***************************************************************************)
(* rangeOverlapping: closed-interval touch test                             *)
(***************************************************************************)
\* faulty variant of rangeOverlapping: the ranges are taken half-open
rangeOverlappingHalfOpen(first, second) ==
    first.from < second.to /\ second.from < first.to

rangeOverlapping(first, second) ==
    \/ (first.from <= second.from /\ second.from <= first.to)
    \/ (first.from <= second.to /\ second.to <= first.to)
    \/ (second.from <= first.from /\ first.from <= second.to)
    \/ (second.from <= first.to /\ first.to <= second.to)

\* no ranges have been compared
NoOverlap ==
    [first |-> [from |-> 0, to |-> 0], second |-> [from |-> 0, to |-> 0],
     status |-> "none", result |-> FALSE, swapped |-> FALSE]

(***************************************************************************)
(* Decoration sets.  The underlines are a bag of records                    *)
(*   [from, to, text, categoryId, ruleId]                                   *)
(* (a RangeSet may hold several decorations with one range); from and to    *)
(* are the decoration's current range, the other fields are the LTMatch it  *)
(* carries.                                                                 *)
(***************************************************************************)
RECURSIVE SumCopies(_, _)
SumCopies(B, S) ==
    IF S = {} THEN 0
    ELSE LET x == CHOOSE y \in S : TRUE
         IN  B[x] + SumCopies(B, S \ {x})

\* faulty variant of mapRange: the range is not moved
mapRangeUnmoved(c, u) == u

\* A mark decoration (non-inclusive: startSide > 0, endSide < 0) mapped
\* through a change: Chunk.map maps from with assoc 1, to with assoc -1
mapRange(c, u) ==
    [u EXCEPT !.from = mapPos(c, u.from, 1), !.to = mapPos(c, u.to, -1)]

\* Chunk.map drops a mark whose mapped range is empty
survivesMap(c, u) == mapPos(c, u.from, 1) < mapPos(c, u.to, -1)

\* RangeSet.map(changes)
MapBag(B, c) ==
    IF ~docChanged(c) THEN B
    ELSE LET live == {u \in DOMAIN B : survivesMap(c, u)}
             img == {mapRange(c, u) : u \in live}
         IN  [r \in img |-> SumCopies(B, {u \in live : mapRange(c, u) = r})]

\* RangeSet.update({filter}) with a filter on the range
\* faulty variant of FilterBag: every decoration is kept
FilterBagKeepsAll(B, kept) == B

FilterBag(B, kept) == [u \in DOMAIN B \cap kept |-> B[u]]

\* RangeSet.update({add: [range]})
AddToBag(B, u) == B (+) SetToBag({u})

\* the number of stored decorations whose range is exactly [from, to)
CountAt(B, from, to) ==
    SumCopies(B, {u \in DOMAIN B : u.from = from /\ u.to = to})

(***************************************************************************)
(* Transactions.  A transaction carries one change (NoChange: none), an     *)
(* optional explicit selection (NoSel: tr.selection is undefined), a list   *)
(* of state effects, and the syntax tree of the resulting state as the host *)
(* parser classifies it:                                                    *)
(*   tree.excluded  positions p where resolveInner(p, 1) carries a token    *)
(*                  class matched by ignoreListRegEx                        *)
(*   tree.table     line starts whose node carries a 'table' token class    *)
(***************************************************************************)
NoSel == [from |-> -1, to |-> -1]

NoTree == [excluded |-> {}, table |-> {}]

Effect(type, from, to, text, categoryId, ruleId) ==
    [type |-> type, from |-> from, to |-> to, text |-> text,
     categoryId |-> categoryId, ruleId |-> ruleId]

addUnderline(m) ==
    Effect("addUnderline", m.from, m.to, m.text, m.categoryId, m.ruleId)

\* faulty variant of clearAllUnderlines: an effect the store does not handle
clearAllUnderlinesUnhandled == Effect("clearSuggestions", 0, 0, <<>>, "", "")

clearAllUnderlines == Effect("clearAllUnderlines", 0, 0, <<>>, "", "")

clearUnderlinesInRange(r) ==
    Effect("clearUnderlinesInRange", r.from, r.to, <<>>, "", "")

ignoreUnderline(r) == Effect("ignoreUnderline", r.from, r.to, <<>>, "", "")

\* clearMatchingUnderlines carries a predicate on the match; the predicates
\* the model dispatches select the matches with one categoryId
clearMatchingUnderlines(categoryId) ==
    Effect("clearMatchingUnderlines", 0, 0, <<>>, categoryId, "")

Transaction(changes, selection, effects, tree) ==
    [changes |-> changes, selection |-> selection, effects |-> effects,
     tree |-> tree]

underlineOf(e) ==
    [from |-> e.from, to |-> e.to, text |-> e.text,
     categoryId |-> e.categoryId, ruleId |-> e.ruleId]

(***************************************************************************)
(* ignoredUnderlineField: marks (a decoration set, kept as the set of its   *)
(* ranges: the marks carry no value) and ignoredRanges (the set of keys     *)
(* "from,to", kept as pairs).  A mark's field origin is history: the range  *)
(* the mark was created with.                                               *)
(***************************************************************************)
NoIgnored == [marks |-> {}, ignoredRanges |-> {}]

MapMarks(marks, c) ==
    IF ~docChanged(c) THEN marks
    ELSE {mapRange(c, m) : m \in {x \in marks : survivesMap(c, x)}}

\* the ranges of a decoration set that touch [from, to]: RangeSet.between
between(marks, from, to) == {m \in marks : m.from <= to /\ m.to >= from}

RECURSIVE IgnoredEffects(_, _, _)
IgnoredEffects(state, effects, i) ==
    IF i > Len(effects) THEN state
    ELSE LET e == effects[i]
         IN  IF e.type = "ignoreUnderline"
             THEN IgnoredEffects(
                      [marks |-> state.marks \cup {[from |-> e.from, to |-> e.to,
                                                    origin |-> <<e.from, e.to>>]},
                       ignoredRanges |-> state.ignoredRanges \cup {<<e.from, e.to>>}],
                      effects, i + 1)
             ELSE IgnoredEffects(state, effects, i + 1)

\* faulty variant of ignoredUnderlineFieldUpdate: the keys are not rebuilt
\* from the mapped marks
ignoredUnderlineFieldUpdateStaleKeys(state, tr, newDoc) ==
    LET mapped == MapMarks(state.marks, tr.changes)
        edited == docChanged(tr.changes) /\ tr.selection # NoSel /\ mapped # {}
        hit == IF edited
               THEN {m \in mapped : rangeOverlapping(m, tr.selection)}
               ELSE {}
        filtered == [marks |-> mapped \ hit,
                     ignoredRanges |-> state.ignoredRanges
                                           \ {<<m.from, m.to>> : m \in hit}]
    IN  IgnoredEffects(filtered, tr.effects, 1)

ignoredUnderlineFieldUpdate(state, tr, newDoc) ==
    LET mapped == MapMarks(state.marks, tr.changes)
        rebuilt == {<<m.from, m.to>> : m \in between(mapped, 0, Len(newDoc))}
        edited == docChanged(tr.changes) /\ tr.selection # NoSel /\ mapped # {}
        hit == IF edited
               THEN {m \in mapped : rangeOverlapping(m, tr.selection)}
               ELSE {}
        filtered == [marks |-> mapped \ hit,
                     ignoredRanges |-> rebuilt \ {<<m.from, m.to>> : m \in hit}]
    IN  IgnoredEffects(filtered, tr.effects, 1)

(***************************************************************************)
(* underlineField.update                                                    *)
(***************************************************************************)
canDecorate(tree, pos) == pos \notin tree.excluded

\* faulty variant of inDictionary: the category is not looked at
inDictionaryAnyCategory(e, newDoc, dict) == sliceDoc(newDoc, e.from, e.to) \in dict

\* the dictionary test of isRuleAllowed
inDictionary(e, newDoc, dict) ==
    e.categoryId = "TYPOS" /\ sliceDoc(newDoc, e.from, e.to) \in dict

isRuleAllowed(e, newDoc, tree, dict) ==
    /\ ~inDictionary(e, newDoc, dict)
    /\ ~(lineFrom(newDoc, e.from) \in tree.table /\ e.ruleId = "WHITESPACE_RULE")

\* faulty variant of addAccepted: the ranges seen in the update are not looked up
addAcceptedUnseen(e, seenRanges, ignoredRanges, newDoc, tree, dict) ==
    /\ <<e.from, e.to>> \notin ignoredRanges
    /\ canDecorate(tree, e.from)
    /\ canDecorate(tree, e.to)
    /\ isRuleAllowed(e, newDoc, tree, dict)

\* the guard of the addUnderline branch
addAccepted(e, seenRanges, ignoredRanges, newDoc, tree, dict) ==
    /\ <<e.from, e.to>> \notin ignoredRanges
    /\ <<e.from, e.to>> \notin seenRanges
    /\ canDecorate(tree, e.from)
    /\ canDecorate(tree, e.to)
    /\ isRuleAllowed(e, newDoc, tree, dict)

\* the addUnderline branch raises a RangeError: newDoc.lineAt(from) for a
\* position outside the document, Decoration.mark().range for an empty range
addThrows(e, seenRanges, ignoredRanges, newDoc, tree, dict) ==
    /\ <<e.from, e.to>> \notin ignoredRanges
    /\ <<e.from, e.to>> \notin seenRanges
    /\ canDecorate(tree, e.from)
    /\ canDecorate(tree, e.to)
    /\ ~inDictionary(e, newDoc, dict)
    /\ (e.from > Len(newDoc) \/ e.from >= e.to)

\* one effect applied to the pair (underlines, seenRanges)
applyEffect(acc, e, ignoredRanges, newDoc, tree, dict) ==
    IF acc.threw THEN acc
    ELSE IF e.type = "addUnderline"
    THEN IF addThrows(e, acc.seenRanges, ignoredRanges, newDoc, tree, dict)
         THEN [acc EXCEPT !.threw = TRUE]
         ELSE IF addAccepted(e, acc.seenRanges, ignoredRanges, newDoc, tree, dict)
         THEN [acc EXCEPT !.seenRanges = @ \cup {<<e.from, e.to>>},
                          !.underlines = AddToBag(@, underlineOf(e))]
         ELSE acc
    ELSE IF e.type = "clearAllUnderlines"
    THEN [acc EXCEPT !.underlines = EmptyBag]
    ELSE IF e.type \in {"clearUnderlinesInRange", "ignoreUnderline"}
    THEN [acc EXCEPT !.underlines =
              FilterBag(@, {u \in DOMAIN @ : ~rangeOverlapping(u, e)})]
    ELSE IF e.type = "clearMatchingUnderlines"
    THEN [acc EXCEPT !.underlines =
              FilterBag(@, {u \in DOMAIN @ : u.categoryId # e.categoryId})]
    ELSE acc

RECURSIVE applyEffects(_, _, _, _, _, _, _)
applyEffects(acc, effects, i, ignoredRanges, newDoc, tree, dict) ==
    IF i > Len(effects) THEN acc
    ELSE applyEffects(applyEffect(acc, effects[i], ignoredRanges, newDoc, tree, dict),
                      effects, i + 1, ignoredRanges, newDoc, tree, dict)

\* "Clear out any decorations when their contents are edited"
editedFilter(mapped, tr) ==
    IF docChanged(tr.changes) /\ tr.selection # NoSel /\ mapped # EmptyBag
    THEN FilterBag(mapped, {u \in DOMAIN mapped : ~rangeOverlapping(u, tr.selection)})
    ELSE mapped

\* the result of underlineField.update: the new decoration set, and whether
\* the update raised an exception
underlineFieldUpdate(underlines, tr, newDoc, ignoredRanges, dict) ==
    applyEffects([underlines |-> editedFilter(MapBag(underlines, tr.changes), tr),
                  seenRanges |-> {}, threw |-> FALSE],
                 tr.effects, 1, ignoredRanges, newDoc, tr.tree, dict)

\* RangeSet.map raises a RangeError for a position beyond the old document
mapThrows(ranges, c, oldDoc) ==
    docChanged(c) /\ \E u \in ranges : u.to > Len(oldDoc)

(***************************************************************************)
(* State                                                                    *)
(*   doc         the document of the editor                                 *)
(*   underlines  the value of underlineField                                *)
(*   ignored     the value of ignoredUnderlineField                         *)
(*   dictionary  the vault's spellcheckDictionary                           *)
(*   pending     the requests in flight (check and synonym requests), each  *)
(*               with what its continuation captured                        *)
(*   isLoading   the status bar shows the working indicator                 *)
(*   auto        the automatic check handler: the setting shouldAutoCheck,  *)
(*               minRange, maxRange and debounceTimer (-1: no timer is      *)
(*               waiting, else the time left until it fires), and as        *)
(*               history idle (the time since the last edit, up to          *)
(*               autoCheckDelay), burst (the changed ranges recorded since  *)
(*               the timer last fired, each with the size of the document   *)
(*               after the edit), inserted (where the characters            *)
(*               inserted since then are now) and earlier (the least and    *)
(*               the greatest offset recorded before the timer last fired)  *)
(*   sync        the reconciliation of the word lists: settings.dictionary  *)
(*               (local), settings.remoteDictionary (lastSynced), the word  *)
(*               list of the service (remote), and the position of the pass *)
(*               that is under way                                          *)
(*   modal       the dictionary modal of the settings: its word list        *)
(*               (this.words) and the calls it has made                     *)
(*   tab         the settings tab: settings.serverUrl and                   *)
(*               settings.autoCheckDelay, and the controls of the tab       *)
(*   annotator   the Markdown annotator: the text and its syntax tree, and  *)
(*               the AnnotatedText made of them                             *)
(*   overlap     two ranges and what rangeOverlapping returns for them      *)
(*   event       history: the event a behaviour ends with (NoEvent before   *)
(*               it), with the transaction it dispatched and the state it   *)
(*               started from.  Every step is taken either unobserved       *)
(*               (event stays NoEvent) or observed; an observed step ends   *)
(*               the behaviour, so that event always describes the step     *)
(*               that led to the current state.                             *)
(***************************************************************************)
VARIABLES doc, underlines, ignored, dictionary, pending, isLoading, auto, sync,
          modal, tab, annotator, overlap, event

vars == <<doc, underlines, ignored, dictionary, pending, isLoading, auto, sync,
          modal, tab, annotator, overlap, event>>

NoTransaction == Transaction(NoChange, NoSel, <<>>, NoTree)

NoRequest ==
    [kind |-> "none", ranged |-> FALSE, from |-> 0, to |-> 0, text |-> <<>>]

\* the automatic check handler after construction
NoAuto(shouldAutoCheck) ==
    [shouldAutoCheck |-> shouldAutoCheck, minRange |-> Infinity,
     maxRange |-> -Infinity, debounceTimer |-> -1, idle |-> autoCheckDelay,
     burst |-> <<>>, inserted |-> {},
     earlier |-> [from |-> Infinity, to |-> -Infinity]]

NoBefore ==
    [doc |-> <<>>, underlines |-> EmptyBag, ignored |-> NoIgnored,
     pending |-> EmptyBag, dictionary |-> {}, auto |-> NoAuto(FALSE)]

\* an event: its kind, the transaction it dispatched, the request it issued
\* or answered, the matches of the answer, the range handed to runDetection
\* (or, when none was handed to it, the selection it found), whether the
\* dispatch raised, and the state it started from
Event(kind, tr, request, matches, range, threw, before) ==
    [kind |-> kind, tr |-> tr, request |-> request, matches |-> matches,
     range |-> range, threw |-> threw, before |-> before]

NoEvent == Event("none", NoTransaction, NoRequest, <<>>, NoSel, FALSE, NoBefore)

\* the state a step starts from
Before ==
    [doc |-> doc, underlines |-> underlines, ignored |-> ignored,
     pending |-> pending, dictionary |-> dictionary, auto |-> auto]

\* no step of the behaviour has been observed
Unobserved == event = NoEvent

\* a step of the editor: the word lists and the annotator are not touched
Editing == Unobserved /\ UNCHANGED <<sync, modal, tab, annotator, overlap>>

\* the step is taken unobserved, or observed as the event e
Observe(e) == event = NoEvent /\ event' \in {NoEvent, e}

(***************************************************************************)
(* The automatic check handler (an update listener of the editor)           *)
(***************************************************************************)
\* faulty variant of autoCheckHandler: a waiting timer is left as it is
autoCheckHandlerKeepsTimer(a, c) ==
    IF ~docChanged(c) \/ ~a.shouldAutoCheck THEN a
    ELSE [a EXCEPT !.minRange = Min(Min(@, c.from), c.from + Len(c.insert)),
                   !.maxRange = Max(Max(@, c.from), c.from + Len(c.insert)),
                   !.debounceTimer = IF @ >= 0 THEN @ ELSE autoCheckDelay]

\* faulty variant of autoCheckHandler: the range of the last edit alone
autoCheckHandlerLastEdit(a, c) ==
    IF ~docChanged(c) \/ ~a.shouldAutoCheck THEN a
    ELSE [a EXCEPT !.minRange = c.from,
                   !.maxRange = c.from + Len(c.insert),
                   !.debounceTimer = autoCheckDelay]

\* the listener, for an update with the change c: iterChangedRanges reports
\* fromB = c.from and toB = c.from + Len(c.insert); the timer is set anew
autoCheckHandler(a, c) ==
    IF ~docChanged(c) \/ ~a.shouldAutoCheck THEN a
    ELSE [a EXCEPT !.minRange = Min(Min(@, c.from), c.from + Len(c.insert)),
                   !.maxRange = Max(Max(@, c.from), c.from + Len(c.insert)),
                   !.debounceTimer = autoCheckDelay]

\* history of the handler: the edit is recorded, and the characters inserted
\* since the timer last fired are followed to where the edit moves them
recordEdit(a, c) ==
    IF ~docChanged(c) \/ ~a.shouldAutoCheck THEN a
    ELSE [a EXCEPT !.idle = 0,
                   !.burst = Append(@, [from |-> c.from,
                                        to |-> c.from + Len(c.insert),
                                        size |-> Len(doc) + Len(c.insert)
                                                   - (c.to - c.from)]),
                   !.inserted =
                       {q \in @ : q < c.from}
                         \cup {q + Len(c.insert) - (c.to - c.from) :
                                   q \in {r \in @ : r >= c.to}}
                         \cup c.from..(c.from + Len(c.insert) - 1)]

(***************************************************************************)
(* EditorView.dispatch: the state fields are updated in extension order,    *)
(* ignoredUnderlineField before underlineField, and then the update         *)
(* listeners run.  When an update raises, the editor keeps its state;       *)
(* ignoredUnderlineField has by then changed its value object in place.     *)
(***************************************************************************)
DispatchResult(tr) ==
    LET newDoc == ApplyChange(doc, tr.changes)
        ignThrew == mapThrows(ignored.marks, tr.changes, doc)
        ign == ignoredUnderlineFieldUpdate(ignored, tr, newDoc)
        undThrew == mapThrows(DOMAIN underlines, tr.changes, doc)
        und == underlineFieldUpdate(underlines, tr, newDoc, ign.ignoredRanges,
                                    dictionary)
    IN  IF ignThrew
        THEN [doc |-> doc, ignored |-> ignored, underlines |-> underlines,
              auto |-> auto, threw |-> TRUE]
        ELSE IF undThrew \/ und.threw
        THEN [doc |-> doc, ignored |-> ign, underlines |-> underlines,
              auto |-> auto, threw |-> TRUE]
        ELSE [doc |-> newDoc, ignored |-> ign, underlines |-> und.underlines,
              auto |-> recordEdit(autoCheckHandler(auto, tr.changes), tr.changes),
              threw |-> FALSE]

\* A timer that is due fires before the editor handles a later change; the
\* model follows at most MaxBurst changes and MaxUnderlines underlines.
Dispatch(kind, tr, request, matches) ==
    /\ event = NoEvent
    /\ (docChanged(tr.changes) /\ auto.shouldAutoCheck) =>
           (auto.debounceTimer # 0 /\ Len(auto.burst) < MaxBurst)
    /\ LET r == DispatchResult(tr)
       IN  /\ BagCardinality(r.underlines) <= MaxUnderlines
           /\ doc' = r.doc
           /\ ignored' = r.ignored
           /\ underlines' = r.underlines
           /\ auto' = r.auto
           /\ Observe(Event(kind, tr, request, matches, NoSel, r.threw, Before))

(***************************************************************************)
(* Inputs                                                                   *)
(***************************************************************************)
Ranges(d) == {r \in [from : 0..Len(d), to : 0..Len(d)] : r.from <= r.to}

Carets(d) == {[from |-> p, to |-> p] : p \in 0..Len(d)}

\* the changes of a document that insert one of the texts
Changes(d, texts) ==
    {c \in [from : 0..Len(d), to : 0..Len(d), insert : texts] :
        c.from <= c.to /\ docChanged(c)}

\* typing one of the texts (single characters), or deleting one character
Keystrokes(d, texts) ==
    {c \in Changes(d, texts \cup {<<>>}) : (c.to - c.from) + Len(c.insert) = 1}

LineStarts(d) == {p \in 0..Len(d) : p = 0 \/ d[p] = "\n"}

\* the host's classifications of a document
Trees(d) ==
    {NoTree}
      \cup {[excluded |-> {p}, table |-> {}] : p \in 0..Len(d)}
      \cup {[excluded |-> {}, table |-> LineStarts(d)]}

(***************************************************************************)
(* A document change made in the editor (typing, deleting, pasting, undo,   *)
(* a change made through the host's editor interface): one change, with or  *)
(* without an explicit selection, no effects.                               *)
(***************************************************************************)
Edit(c, sel) ==
    /\ event = NoEvent
    /\ docChanged(c)
    /\ Len(ApplyChange(doc, c)) <= MaxDoc
    /\ Dispatch("edit", Transaction(c, sel, <<>>, NoTree), NoRequest, <<>>)
    /\ UNCHANGED <<dictionary, pending, isLoading>>

\* the selection after typing or deleting: the cursor behind the insertion
\* a paste: the same transaction as an edit, with a longer text
Paste(c, sel) ==
    /\ event = NoEvent
    /\ docChanged(c)
    /\ Len(ApplyChange(doc, c)) <= MaxPasted
    /\ Dispatch("edit", Transaction(c, sel, <<>>, NoTree), NoRequest, <<>>)
    /\ UNCHANGED <<dictionary, pending, isLoading>>

cursorAfter(c) ==
    [from |-> c.from + Len(c.insert), to |-> c.from + Len(c.insert)]

(***************************************************************************)
(* runDetection, up to its await                                            *)
(***************************************************************************)
\* increaseSelection: listFrom is the start of the 'list-' node that
\* resolveInner(range.from, -1) finds, or -1 when that node is no list node
increaseSelection(d, range, listFrom) ==
    [from |-> IF range.from > 0
              THEN (IF listFrom >= 0 THEN listFrom ELSE lineFrom(d, range.from))
              ELSE 0,
     to |-> IF range.to < Len(d) THEN lineTo(d, range.to) ELSE Len(d)]

\* the list node starts the host may report for a position: none, or the
\* start of a node that ends at or after the position
ListFroms(d, pos) == {-1} \cup 0..(pos - 1)

\* faulty variant of checkRequest: the selection is not looked at
checkRequestWhole(d, rangeArg, selection, listFrom) ==
    IF isBlank(d) THEN NoRequest
    ELSE [kind |-> "check", ranged |-> FALSE, from |-> 0, to |-> 0, text |-> d]

\* the request runDetection issues for the range argument (NoSel: none) and
\* the selection; NoRequest when the text to check is blank
checkRequest(d, rangeArg, selection, listFrom) ==
    LET given == IF rangeArg # NoSel THEN rangeArg
                 ELSE IF selection.from # selection.to THEN selection
                 ELSE NoSel
        range == IF given # NoSel THEN increaseSelection(d, given, listFrom)
                 ELSE NoSel
        text == IF given # NoSel THEN sliceDoc(d, range.from, range.to) ELSE d
    IN  IF isBlank(text) THEN NoRequest
        ELSE [kind |-> "check", ranged |-> given # NoSel,
              from |-> IF given # NoSel THEN range.from ELSE 0,
              to |-> IF given # NoSel THEN range.to ELSE 0,
              text |-> text]

\* runDetection(editor, range) up to its await: the request is sent, and
\* the status bar set working, unless the text is blank.  The model follows
\* at most limit requests at a time.
runDetectionWithin(limit, kind, rangeArg, selection, listFrom) ==
    LET req == checkRequest(doc, rangeArg, selection, listFrom)
    IN  /\ event = NoEvent
        /\ BagCardinality(pending) < limit
        /\ IF req = NoRequest
           THEN UNCHANGED <<pending, isLoading>>
           ELSE /\ pending' = pending (+) SetToBag({req})
                /\ isLoading' = TRUE
        /\ Observe(Event(kind, NoTransaction, req, <<>>,
                         IF rangeArg # NoSel THEN rangeArg ELSE selection,
                         FALSE, Before))
        /\ UNCHANGED <<doc, underlines, ignored, dictionary>>

runDetection(kind, rangeArg, selection, listFrom) ==
    runDetectionWithin(MaxPending, kind, rangeArg, selection, listFrom)

\* the 'Check Text' command and the status bar's 'Check current document'
RunDetection(selection, listFrom) ==
    /\ runDetection("check", NoSel, selection, listFrom)
    /\ UNCHANGED auto

\* the same, while earlier checks are still in flight
RunDetectionConcurrently(selection, listFrom) ==
    /\ runDetectionWithin(MaxConcurrent, "check", NoSel, selection, listFrom)
    /\ UNCHANGED auto

(***************************************************************************)
(* The timer of the automatic check                                         *)
(***************************************************************************)
\* one unit of time passes while the timer waits
Tick ==
    /\ event = NoEvent
    /\ auto.debounceTimer > 0
    /\ auto' = [auto EXCEPT !.debounceTimer = @ - 1,
                            !.idle = Min(@ + 1, autoCheckDelay)]
    /\ Observe(Event("tick", NoTransaction, NoRequest, <<>>, NoSel, FALSE, Before))
    /\ UNCHANGED <<doc, underlines, ignored, dictionary, pending, isLoading>>

\* view.lineBlockAt(pos), for a position clamped to the document
lineBlockAt(d, pos) == [from |-> lineFrom(d, pos), to |-> lineTo(d, pos)]

\* the timer's callback
\* faulty variant of AutoCheckFires: the two offsets are kept when the timer
\* has fired
AutoCheckFiresKeepsRange(listFrom) ==
    LET startLine == lineBlockAt(doc, auto.minRange)
        endLine == lineBlockAt(doc, auto.maxRange)
    IN  /\ auto.debounceTimer = 0
        /\ runDetection("autoCheck", [from |-> startLine.from, to |-> endLine.to],
                        NoSel, listFrom)
        /\ auto' = [auto EXCEPT !.debounceTimer = -1, !.burst = <<>>,
                                !.inserted = {},
                                !.earlier = [from |-> Min(@.from, auto.minRange),
                                             to |-> Max(@.to, auto.maxRange)]]

AutoCheckFires(listFrom) ==
    LET startLine == lineBlockAt(doc, auto.minRange)
        endLine == lineBlockAt(doc, auto.maxRange)
    IN  /\ auto.debounceTimer = 0
        /\ runDetection("autoCheck", [from |-> startLine.from, to |-> endLine.to],
                        NoSel, listFrom)
        /\ auto' = [auto EXCEPT !.minRange = Infinity, !.maxRange = -Infinity,
                                !.debounceTimer = -1, !.burst = <<>>,
                                !.inserted = {},
                                !.earlier = [from |-> Min(@.from, auto.minRange),
                                             to |-> Max(@.to, auto.maxRange)]]

(***************************************************************************)
(* The checker's answer, and api.check's translation of it                  *)
(***************************************************************************)
Typo == [categoryId |-> "TYPOS", ruleId |-> "MORFOLOGIK_RULE"]

Whitespace == [categoryId |-> "TYPOGRAPHY", ruleId |-> "WHITESPACE_RULE"]

\* the matches the service may report for a text: inside the text, not empty
ServerMatches(text, kinds) ==
    {m \in [offset : 0..(Len(text) - 1), length : 1..Len(text), kind : kinds] :
        m.offset + m.length <= Len(text)}

\* the service lists its matches by offset
Responses(text, kinds) ==
    UNION {{s \in [1..n -> ServerMatches(text, kinds)] :
               \A i \in 1..(n - 1) : s[i].offset <= s[i + 1].offset} :
           n \in 0..MaxMatches}

\* api.check: the LTMatch of a reported match
LTMatch(req, m) ==
    [text |-> SubSeq(req.text, m.offset + 1, m.offset + m.length),
     from |-> req.from + m.offset,
     to |-> req.from + m.offset + m.length,
     categoryId |-> m.kind.categoryId,
     ruleId |-> m.kind.ruleId]

LTMatches(req, server) == [i \in 1..Len(server) |-> LTMatch(req, server[i])]

(***************************************************************************)
(* runDetection, after its await                                            *)
(***************************************************************************)
\* the matches runDetection turns into addUnderline effects
matchKept(m, d, dict) ==
    /\ ~(m.to > Len(d))
    /\ ~(m.categoryId = "TYPOS" /\ m.text \in dict)

RECURSIVE addEffects(_, _, _, _)
addEffects(matches, i, d, dict) ==
    IF i > Len(matches) THEN <<>>
    ELSE (IF matchKept(matches[i], d, dict)
          THEN <<addUnderline(matches[i])>> ELSE <<>>)
         \o addEffects(matches, i + 1, d, dict)

\* faulty variant of responseEffects: all underlines are cleared
responseEffectsClearAll(req, matches, d, dict) ==
    <<clearAllUnderlines>> \o addEffects(matches, 1, d, dict)

\* faulty variant of responseEffects: the clear alone
responseEffectsClearOnly(req, matches, d, dict) ==
    <<IF req.ranged THEN clearUnderlinesInRange(req) ELSE clearAllUnderlines>>

\* the effects of the one transaction that applies a response
responseEffects(req, matches, d, dict) ==
    <<IF req.ranged THEN clearUnderlinesInRange(req) ELSE clearAllUnderlines>>
        \o addEffects(matches, 1, d, dict)

\* the check request succeeded: the response is applied
CheckSucceeds(req, server, tree) ==
    LET matches == LTMatches(req, server)
        tr == Transaction(NoChange, NoSel,
                          responseEffects(req, matches, doc, dictionary), tree)
    IN  /\ event = NoEvent
        /\ pending' = pending (-) SetToBag({req})
        /\ isLoading' = FALSE
        /\ Dispatch("response", tr, req, matches)
        /\ UNCHANGED dictionary

\* faulty variant of CheckFails: the underlines are cleared
CheckFailsClears(req) ==
    /\ event = NoEvent
    /\ pending' = pending (-) SetToBag({req})
    /\ isLoading' = FALSE
    /\ underlines' = EmptyBag
    /\ Observe(Event("failure", NoTransaction, req, <<>>, NoSel, FALSE, Before))
    /\ UNCHANGED <<doc, ignored, dictionary, auto>>

\* faulty variant of CheckFails: the status bar is left as it is
CheckFailsKeepsWorking(req) ==
    /\ event = NoEvent
    /\ pending' = pending (-) SetToBag({req})
    /\ Observe(Event("failure", NoTransaction, req, <<>>, NoSel, FALSE, Before))
    /\ UNCHANGED <<doc, underlines, ignored, dictionary, isLoading, auto>>

\* the check request failed: the catch block of runDetection
CheckFails(req) ==
    /\ event = NoEvent
    /\ pending' = pending (-) SetToBag({req})
    /\ isLoading' = FALSE
    /\ Observe(Event("failure", NoTransaction, req, <<>>, NoSel, FALSE, Before))
    /\ UNCHANGED <<doc, underlines, ignored, dictionary, auto>>

(***************************************************************************)
(* The synonym menu item                                                    *)
(***************************************************************************)
\* the word may hold neither white space nor a period
SynonymRequest(selection) ==
    LET word == sliceDoc(doc, selection.from, selection.to)
    IN  /\ event = NoEvent
        /\ selection.from # selection.to
        /\ \A i \in 1..Len(word) : word[i] # "\n"
        /\ BagCardinality(pending) < MaxPending
        /\ pending' = pending (+) SetToBag({[kind |-> "synonyms", ranged |-> TRUE,
                                            from |-> selection.from,
                                            to |-> selection.to, text |-> word]})
        /\ Observe(Event("synonyms", NoTransaction, NoRequest, <<>>, selection,
                         FALSE, Before))
        /\ UNCHANGED <<doc, underlines, ignored, dictionary, isLoading, auto>>

SynonymSucceeds(req, tree) ==
    LET m == [text |-> req.text, from |-> req.from, to |-> req.to,
              categoryId |-> "SYNONYMS", ruleId |-> "SYNONYMS"]
    IN  /\ event = NoEvent
        /\ pending' = pending (-) SetToBag({req})
        /\ Dispatch("synonymsResponse",
                    Transaction(NoChange, NoSel, <<addUnderline(m)>>, tree),
                    req, <<m>>)
        /\ UNCHANGED <<dictionary, isLoading>>

SynonymFails(req) ==
    /\ event = NoEvent
    /\ pending' = pending (-) SetToBag({req})
    /\ Observe(Event("synonymsFailure", NoTransaction, req, <<>>, NoSel, FALSE, Before))
    /\ UNCHANGED <<doc, underlines, ignored, dictionary, isLoading, auto>>

(***************************************************************************)
(* Commands and tooltip buttons                                             *)
(***************************************************************************)
\* 'Clear Suggestions'
ClearSuggestions ==
    /\ Dispatch("clear", Transaction(NoChange, NoSel, <<clearAllUnderlines>>, NoTree),
                NoRequest, <<>>)
    /\ UNCHANGED <<dictionary, pending, isLoading>>

\* a transaction that carries clearMatchingUnderlines for the matches of one
\* category
ClearMatching(categoryId) ==
    /\ Dispatch("clearMatching",
                Transaction(NoChange, NoSel,
                            <<clearMatchingUnderlines(categoryId)>>, NoTree),
                NoRequest, <<>>)
    /\ UNCHANGED <<dictionary, pending, isLoading>>

\* accepting a replacement (command with the cursor in one underline, or a
\* tooltip button): the underline's range is replaced, and cleared
AcceptSuggestion(u, replacement) ==
    LET c == [from |-> u.from, to |-> u.to, insert |-> replacement]
    IN  /\ event = NoEvent
        /\ u.to <= Len(doc)
        /\ Len(ApplyChange(doc, c)) <= MaxAccepted
        /\ Dispatch("accept",
                    Transaction(c, NoSel, <<clearUnderlinesInRange(u)>>, NoTree),
                    NoRequest, <<>>)
        /\ UNCHANGED <<dictionary, pending, isLoading>>

\* the tooltip's 'Ignore suggestion' button (shown for all but TYPOS); the
\* model follows at most MaxIgnored ignored spans
IgnoreSuggestion(u) ==
    /\ event = NoEvent
    /\ u.categoryId # "TYPOS"
    /\ Cardinality(ignored.marks) < MaxIgnored
    /\ Dispatch("ignore", Transaction(NoChange, NoSel, <<ignoreUnderline(u)>>, NoTree),
                NoRequest, <<>>)
    /\ UNCHANGED <<dictionary, pending, isLoading>>

\* the tooltip's 'Add to personal dictionary' button (shown for TYPOS); the
\* model follows at most MaxWords words
AddToDictionary(u) ==
    /\ event = NoEvent
    /\ u.categoryId = "TYPOS"
    /\ Cardinality(dictionary \cup {sliceDoc(doc, u.from, u.to)}) <= MaxWords
    /\ dictionary' = dictionary \cup {sliceDoc(doc, u.from, u.to)}
    /\ Dispatch("addToDictionary",
                Transaction(NoChange, NoSel, <<clearUnderlinesInRange(u)>>, NoTree),
                NoRequest, <<>>)
    /\ UNCHANGED <<pending, isLoading>>

(***************************************************************************)
(* The reconciliation of the word lists (plugin.syncDictionary).  The set   *)
(* helpers are those of helpers.ts; the pass itself follows the             *)
(* specification's DictionaryReconciler: words() is fetched, the words      *)
(* removed locally are deleted remotely one call after the other, the words *)
(* missing remotely are added one call after the other, and then the merged *)
(* set becomes settings.dictionary and settings.remoteDictionary.  A remote *)
(* call that fails ends the pass.                                           *)
(*   pc       "idle", or the phase of the pass under way: "delete", "add"   *)
(*   fetched  the word list words() returned to the pass                    *)
(*   todo     the words the phase has still to delete or add                *)
(* and as history                                                           *)
(*   start    the three sets when the pass began                            *)
(*   origin   the three sets when the first pass began                      *)
(*   deleted, added   the words the pass deleted and added remotely         *)
(*   last     how the last step ended                                       *)
(*   passes, aborts   the passes ended, and those of them that failed       *)
(*   changed  the value the last completed pass returned                    *)
(***************************************************************************)
Words == {"foo", "bar", "baz", "qux"}

\* faulty variant of setDifference: the arguments are swapped
setDifferenceSwapped(setA, setB) == setB \ setA

setDifference(setA, setB) == setA \ setB

\* faulty variant of setUnion: the elements of setA alone
setUnionLeft(setA, setB) == setA

setUnion(setA, setB) == setA \cup setB

\* faulty variant of setIntersect: the elements of setB
setIntersectAll(setA, setB) == setB

setIntersect(setA, setB) == {elem \in setB : elem \in setA}

\* step 1: the words removed locally that the remote still has
localRemoved(local, lastSynced, remote) ==
    setIntersect(setDifference(lastSynced, local), remote)

\* step 2: the words the remote dropped
remoteRemoved(local, lastSynced, remote) == setDifference(lastSynced, remote)

\* step 3
remoteWorking(local, lastSynced, remote) ==
    setDifference(remote, localRemoved(local, lastSynced, remote))

\* faulty variant of localWorking: the words the remote dropped stay
localWorkingAll(local, lastSynced, remote) == local

localWorking(local, lastSynced, remote) ==
    setDifference(local, remoteRemoved(local, lastSynced, remote))

\* step 4: the words present locally but not remotely
missingRemote(local, lastSynced, remote) ==
    setDifference(localWorking(local, lastSynced, remote),
                  remoteWorking(local, lastSynced, remote))

\* step 5
merged(local, lastSynced, remote) ==
    setUnion(remoteWorking(local, lastSynced, remote),
             localWorking(local, lastSynced, remote))

Snapshot(local, lastSynced, remote) ==
    [local |-> local, lastSynced |-> lastSynced, remote |-> remote]

NoSync ==
    [local |-> {}, lastSynced |-> {}, remote |-> {}, pc |-> "idle",
     fetched |-> {}, todo |-> {}, start |-> Snapshot({}, {}, {}),
     origin |-> Snapshot({}, {}, {}), deleted |-> {}, added |-> {},
     last |-> "none", passes |-> 0, aborts |-> 0, changed |-> FALSE]

\* the word lists before the first pass
SyncOf(local, lastSynced, remote) ==
    [NoSync EXCEPT !.local = local, !.lastSynced = lastSynced,
                   !.remote = remote]

\* faulty variant of SyncFinish: the value returned tells whether the merged
\* set differs from local
SyncFinishSetDiffers(s) ==
    LET m == merged(s.local, s.lastSynced, s.fetched)
    IN  [s EXCEPT !.local = m, !.lastSynced = m, !.pc = "idle", !.todo = {},
                  !.last = "finished", !.passes = @ + 1,
                  !.changed = m # s.local]

\* the pass completes: steps 5 and the returned value
SyncFinish(s) ==
    LET m == merged(s.local, s.lastSynced, s.fetched)
    IN  [s EXCEPT !.local = m, !.lastSynced = m, !.pc = "idle", !.todo = {},
                  !.last = "finished", !.passes = @ + 1,
                  !.changed = Cardinality(m) # Cardinality(s.local)]

\* faulty variant of SyncAbort: the merged set is stored all the same
SyncAbortStores(s) ==
    [SyncFinish(s) EXCEPT !.last = "aborted", !.aborts = @ + 1]

\* a remote call failed: the pass ends, nothing is stored
SyncAbort(s) ==
    [s EXCEPT !.pc = "idle", !.todo = {}, !.last = "aborted",
              !.passes = @ + 1, !.aborts = @ + 1]

\* the pass moves on when a phase has no call left to make
SyncAdvance(s) ==
    IF s.pc = "delete" /\ s.todo = {}
    THEN LET t == [s EXCEPT !.pc = "add",
                            !.todo = missingRemote(s.local, s.lastSynced, s.fetched)]
         IN  IF t.todo = {} THEN SyncFinish(t) ELSE t
    ELSE IF s.pc = "add" /\ s.todo = {} THEN SyncFinish(s)
    ELSE s

\* the steps of the reconciliation leave the editor alone
SyncStep(s) ==
    /\ sync' = s
    /\ UNCHANGED <<doc, underlines, ignored, dictionary, pending, isLoading,
                   auto, modal, tab, annotator, overlap, event>>

\* a pass begins: api.words succeeds or fails.  The model follows at most
\* MaxPasses passes.
SyncWords(ok) ==
    LET began == [sync EXCEPT
                      !.start = Snapshot(sync.local, sync.lastSynced, sync.remote),
                      !.origin = IF sync.passes = 0
                                 THEN Snapshot(sync.local, sync.lastSynced, sync.remote)
                                 ELSE @,
                      !.deleted = {}, !.added = {}]
    IN  /\ sync.pc = "idle"
        /\ sync.passes < MaxPasses
        /\ SyncStep(IF ok
                    THEN SyncAdvance([began EXCEPT
                             !.pc = "delete", !.fetched = sync.remote,
                             !.last = "started",
                             !.todo = localRemoved(sync.local, sync.lastSynced,
                                                   sync.remote)])
                    ELSE SyncAbort(began))

\* api.wordsDel for a word removed locally succeeds or fails
SyncWordsDel(word, ok) ==
    /\ sync.pc = "delete"
    /\ word \in sync.todo
    /\ SyncStep(IF ok
                THEN SyncAdvance([sync EXCEPT !.remote = @ \ {word},
                                              !.todo = @ \ {word},
                                              !.deleted = @ \cup {word},
                                              !.last = "deleted"])
                ELSE SyncAbort(sync))

\* api.wordsAdd for a word missing remotely succeeds or fails
SyncWordsAdd(word, ok) ==
    /\ sync.pc = "add"
    /\ word \in sync.todo
    /\ SyncStep(IF ok
                THEN SyncAdvance([sync EXCEPT !.remote = @ \cup {word},
                                              !.todo = @ \ {word},
                                              !.added = @ \cup {word},
                                              !.last = "added"])
                ELSE SyncAbort(sync))

(***************************************************************************)
(* The dictionary modal of the settings (settings.ts, DictionaryModal).     *)
(* settings.dictionary is sync.local.  The modal keeps                      *)
(*   open      it is shown                                                  *)
(*   words     this.words                                                   *)
(*   aliased   this.words is the array settings.dictionary itself, so that  *)
(*             a removal changes both                                       *)
(*   awaiting  the callback of the syncDictionary call of onOpen has not    *)
(*             run                                                          *)
(*   calls     the calls of syncDictionary made                             *)
(* and as history                                                           *)
(*   closed    onClose has run                                              *)
(*   stored    settings.dictionary as onClose assigned it                   *)
(*   added     the words added while the callback of onOpen had not run     *)
(*   replaced  those of them the list was missing that the callback put in  *)
(*             the place of this.words while the modal was open             *)
(* The model follows one opening of the modal; the passes of the two calls  *)
(* of syncDictionary run one after the other.                               *)
(***************************************************************************)
NoModal ==
    [open |-> FALSE, words |-> {}, aliased |-> TRUE, awaiting |-> FALSE,
     calls |-> 0, closed |-> FALSE, stored |-> {}, added |-> {},
     replaced |-> {}]

\* the steps of the modal that leave settings.dictionary alone
ModalStep(m) ==
    /\ modal' = m
    /\ UNCHANGED <<doc, underlines, ignored, dictionary, pending, isLoading,
                   auto, sync, tab, annotator, overlap, event>>

\* the pass of onOpen has ended and its callback has not run: it runs before
\* any other handler
callbackDue == modal.awaiting /\ sync.passes >= 1

\* a call of syncDictionary has not begun its pass
passDue == sync.pc = "idle" /\ sync.passes < modal.calls /\ ~callbackDue

onOpen ==
    /\ ~modal.open
    /\ modal.calls = 0
    /\ ModalStep([modal EXCEPT !.open = TRUE, !.words = sync.local,
                               !.aliased = TRUE, !.awaiting = TRUE,
                               !.calls = @ + 1])

\* the callback of syncDictionary().then in onOpen
refresh ==
    LET changed == sync.last = "finished" /\ sync.changed
    IN  /\ callbackDue
        /\ ModalStep([modal EXCEPT
               !.awaiting = FALSE,
               !.words = IF changed THEN sync.local ELSE @,
               !.aliased = IF changed THEN TRUE ELSE @,
               !.replaced = IF changed /\ modal.open
                            THEN modal.added \ sync.local ELSE @])

addWord(newWord) ==
    /\ modal.open
    /\ ~callbackDue
    /\ ModalStep([modal EXCEPT
           !.words = @ \cup {newWord},
           !.aliased = FALSE,
           !.added = IF modal.awaiting THEN @ \cup {newWord} ELSE @,
           !.replaced = @ \ {newWord}])

\* the click on the remove button of a word
removeWord(word) ==
    /\ modal.open
    /\ ~callbackDue
    /\ word \in modal.words
    /\ modal' = [modal EXCEPT !.words = @ \ {word}, !.added = @ \ {word},
                              !.replaced = @ \ {word}]
    /\ sync' = IF modal.aliased THEN [sync EXCEPT !.local = @ \ {word}]
               ELSE sync
    /\ UNCHANGED <<doc, underlines, ignored, dictionary, pending, isLoading,
                   auto, tab, annotator, overlap, event>>

onClose ==
    /\ modal.open
    /\ ~callbackDue
    /\ modal' = [modal EXCEPT !.open = FALSE, !.aliased = TRUE,
                              !.calls = @ + 1, !.closed = TRUE,
                              !.stored = modal.words]
    /\ sync' = [sync EXCEPT !.local = modal.words]
    /\ UNCHANGED <<doc, underlines, ignored, dictionary, pending, isLoading,
                   auto, tab, annotator, overlap, event>>

(***************************************************************************)
(* The settings tab (settings.ts, LTSettingsTab).  A URL is a sequence of   *)
(* its parts: the address of a server, then possibly "/v2/check" and "/".   *)
(* A delay is a number of milliseconds.  The tab keeps                      *)
(*   serverUrl, autoCheckDelay   the two settings                           *)
(*   shown      display has run                                             *)
(*   endpoint   the endpoint the handlers of the tab share                  *)
(*   dropdown   the value the dropdown shows                                *)
(*   disabled   the input of the URL is disabled                            *)
(*   limit      the lower limit of the slider                               *)
(***************************************************************************)
autoCheckDelayMax == 5000

autoCheckDelayStep == 250

Endpoint(url, requestsPerSec, maxSize) ==
    [url |-> url, requestsPerSec |-> requestsPerSec, maxSize |-> maxSize]

\* (60 / requestsPerSec) * 1000, a whole number for the three endpoints
minDelay(endpoint) == (60 * 1000) \div endpoint.requestsPerSec

endpoints ==
    [standard |-> Endpoint(<<"https://api.languagetool.org">>, 20, 20000),
     premium |-> Endpoint(<<"https://api.languagetoolplus.com">>, 80, 75000),
     custom |-> Endpoint(<<>>, 120, 1000000)]

\* the first endpoint, in the order standard, premium, custom, of that URL
endpointFromUrl(url) ==
    IF endpoints.standard.url = url THEN "standard"
    ELSE IF endpoints.premium.url = url THEN "premium"
    ELSE "custom"

\* value.replace(/\/v2\/check\/$/, '').replace(/\/$/, '')
withoutSuffix(value) ==
    LET n == Len(value)
        first == IF n >= 2 /\ value[n - 1] = "/v2/check" /\ value[n] = "/"
                 THEN SubSeq(value, 1, n - 2) ELSE value
    IN  IF first # <<>> /\ first[Len(first)] = "/"
        THEN SubSeq(first, 1, Len(first) - 1) ELSE first

\* DEFAULT_SETTINGS, before the tab is shown
NoTab ==
    [serverUrl |-> endpoints.standard.url,
     autoCheckDelay |-> minDelay(endpoints.standard),
     shown |-> FALSE, endpoint |-> "standard", dropdown |-> "standard",
     disabled |-> TRUE, limit |-> 0]

\* Math.clamp and slider.setLimits
configureCheckDelay(t, value) ==
    LET minAutoCheckDelay == minDelay(endpoints[value])
    IN  [t EXCEPT !.autoCheckDelay =
                      Min(Max(t.autoCheckDelay, minAutoCheckDelay),
                          autoCheckDelayMax),
                  !.limit = minAutoCheckDelay]

\* the steps of the tab leave everything else alone
TabStep(t) ==
    /\ tab' = t
    /\ UNCHANGED <<doc, underlines, ignored, dictionary, pending, isLoading,
                   auto, sync, modal, annotator, overlap, event>>

display ==
    LET endpoint == endpointFromUrl(tab.serverUrl)
    IN  TabStep(configureCheckDelay(
            [tab EXCEPT !.shown = TRUE, !.endpoint = endpoint,
                        !.dropdown = endpoint,
                        !.disabled = endpoint # "custom"],
            endpoint))

\* onChange of the dropdown: another endpoint is picked
dropdownChanged(value) ==
    /\ tab.shown
    /\ value # tab.dropdown
    /\ TabStep(configureCheckDelay(
           [tab EXCEPT !.endpoint = value, !.dropdown = value,
                       !.serverUrl = endpoints[value].url,
                       !.disabled = value # "custom"],
           value))

\* onChange of the input of the URL
inputChanged(value) ==
    LET serverUrl == withoutSuffix(value)
        endpoint == endpointFromUrl(serverUrl)
    IN  /\ tab.shown
        /\ ~tab.disabled
        /\ TabStep([tab EXCEPT
               !.serverUrl = serverUrl,
               !.endpoint = endpoint,
               !.dropdown = IF endpoint # "custom" THEN endpoint ELSE @,
               !.disabled = IF endpoint # "custom" THEN TRUE ELSE @])

\* onChange of the slider: a value within its limits, in its steps
sliderChanged(value) ==
    /\ tab.shown
    /\ tab.limit <= value
    /\ value <= autoCheckDelayMax
    /\ (value - tab.limit) % autoCheckDelayStep = 0
    /\ TabStep([tab EXCEPT !.autoCheckDelay = value])

(***************************************************************************)
(* AnnotatedText (annotated.ts).  A text is a sequence of characters; an    *)
(* annotation is a text segment {text} or a markup segment {markup,         *)
(* interpretAs}, kept as a record with the segment's kind, its content (the *)
(* text or the markup) and interpretAs (undefined for a text segment and    *)
(* for a markup segment without it).  The character U+2022 is written       *)
(* "bullet" and the backtick "backtick".                                    *)
(***************************************************************************)
undefined == <<"undefined">>

Annotation(kind, content, interpretAs) ==
    [kind |-> kind, content |-> content, interpretAs |-> interpretAs]

pushText(output, text) == Append(output, Annotation("text", text, undefined))

pushMarkup(output, markup, interpretAs) ==
    Append(output, Annotation("markup", markup, interpretAs))

\* the value null
null == <<"null">>

\* interpretAs ?? ""
interpreted(a) == IF a.interpretAs = undefined THEN <<>> ELSE a.interpretAs

\* faulty variant of mergeable: the last markup may carry an interpretAs
mergeableAnyMarkup(last, a) ==
    \/ last.kind = "text" /\ a.kind = "text"
    \/ last.kind = "markup" /\ a.kind = "markup"

\* optimize merges the annotation into the last one of the output
mergeable(last, a) ==
    \/ last.kind = "text" /\ a.kind = "text"
    \/ last.kind = "markup" /\ a.kind = "markup" /\ last.interpretAs = undefined

\* the loop of optimize from the i-th annotation on
RECURSIVE optimizeFrom(_, _, _)
optimizeFrom(annotations, i, output) ==
    IF i > Len(annotations) THEN output
    ELSE LET a == annotations[i]
             last == output[Len(output)]
             skipped ==
                 \/ a.kind = "text" /\ Len(a.content) = 0
                 \/ /\ a.kind = "markup"
                    /\ Len(a.content) = 0
                    /\ a.interpretAs = undefined
         IN  IF skipped THEN optimizeFrom(annotations, i + 1, output)
             ELSE IF output # <<>> /\ mergeable(last, a)
             THEN optimizeFrom(annotations, i + 1,
                      [output EXCEPT ![Len(output)] =
                          Annotation(last.kind, last.content \o a.content,
                                     IF a.kind = "text" THEN undefined
                                     ELSE a.interpretAs)])
             ELSE optimizeFrom(annotations, i + 1, Append(output, a))

optimize(annotations) == optimizeFrom(annotations, 1, <<>>)

\* String.trim: the text between its first and its last character that is
\* no white space
trim(text) ==
    LET solid == {i \in 1..Len(text) : text[i] \notin {" ", "\n"}}
    IN  IF solid = {} THEN <<>>
        ELSE SubSeq(text, CHOOSE i \in solid : \A j \in solid : i <= j,
                    CHOOSE i \in solid : \A j \in solid : i >= j)

\* the first loop of extractSlice: the index (from 1) it stops at, with from
\* and to as it leaves them
RECURSIVE skipLeading(_, _, _, _)
skipLeading(annotations, i, from, to) ==
    IF i <= Len(annotations) /\ Len(annotations[i].content) < from
    THEN skipLeading(annotations, i + 1, from - Len(annotations[i].content),
                     to - Len(annotations[i].content))
    ELSE [i |-> i, from |-> from, to |-> to]

\* the second loop of extractSlice
RECURSIVE collect(_, _, _, _, _)
collect(annotations, i, text, from, to) ==
    IF i > Len(annotations) THEN null
    ELSE LET a == annotations[i]
             isText == a.kind = "text"
             from2 == IF isText THEN from
                      ELSE Max(Len(text), from - Len(a.content))
             to2 == IF isText THEN to
                    ELSE Max(from2, to - Len(a.content)) + Len(interpreted(a))
             text2 == text \o (IF isText THEN a.content ELSE interpreted(a))
         IN  IF Len(text2) >= to2
             THEN trim(SubSeq(text2, from2 + 1, to2))
             ELSE collect(annotations, i + 1, text2, from2, to2)

extractSlice(annotations, from, to) ==
    LET s == skipLeading(annotations, 1, from, to)
    IN  collect(annotations, s.i, <<>>, s.from, s.to)

\* the length of the interpretAs values
RECURSIVE interpretedLength(_)
interpretedLength(annotations) ==
    IF annotations = <<>> THEN 0
    ELSE Len(interpreted(Head(annotations))) + interpretedLength(Tail(annotations))

\* length()
RECURSIVE sourceLength(_)
sourceLength(annotations) ==
    IF annotations = <<>> THEN 0
    ELSE Len(Head(annotations).content) + sourceLength(Tail(annotations))

(***************************************************************************)
(* The Markdown annotator (markdown.ts).  A node of the syntax tree is a    *)
(* record of its type, position.start.offset, position.end.offset, value    *)
(* (for the nodes that have one) and children.                              *)
(***************************************************************************)
Node(type, start, end, value, children) ==
    [type |-> type, start |-> start, end |-> end, value |-> value,
     children |-> children]

\* " ".repeat(n)
Spaces(n) == [i \in 1..n |-> " "]

\* emptyMarkup(pos)
emptyMarkup(node) == Spaces(node.end - node.start)

\* text.split("\n")
RECURSIVE split(_)
split(text) ==
    IF \A i \in 1..Len(text) : text[i] # "\n" THEN <<text>>
    ELSE LET k == CHOOSE i \in 1..Len(text) :
                      text[i] = "\n" /\ \A j \in 1..(i - 1) : text[j] # "\n"
         IN  <<SubSeq(text, 1, k - 1)>> \o split(SubSeq(text, k + 1, Len(text)))

\* the loop of addLines over the lines after the first
RECURSIVE addReminder(_, _, _, _)
addReminder(lines, i, indent, output) ==
    IF i > Len(lines) THEN output
    ELSE addReminder(lines, i + 1, indent,
                     pushText(pushMarkup(output, Spaces(indent), undefined),
                              <<"\n">> \o lines[i]))

addLines(text, indent, output) ==
    LET lines == split(text)
    IN  addReminder(lines, 2, indent, pushText(output, lines[1]))

\* the character class of the regular expression /\\[[:punct:]]/g: without
\* the v flag, [[:punct:] is the class of the characters [ : p u n c t, and
\* the bracket that follows it is a literal
PunctClass == {"[", ":", "p", "u", "n", "c", "t"}

\* the expression matches at the index i (from 1) of the slice
escapeAt(slice, i) ==
    /\ i + 2 <= Len(slice)
    /\ slice[i] = "\\"
    /\ slice[i + 1] \in PunctClass
    /\ slice[i + 2] = "]"

\* the loop over slice.matchAll, from the offset (from 0) reached, and the
\* addLines after it
RECURSIVE addEscaped(_, _, _, _)
addEscaped(slice, offset, indent, output) ==
    LET found == {i \in (offset + 1)..Len(slice) : escapeAt(slice, i)}
    IN  IF found = {}
        THEN addLines(SubSeq(slice, offset + 1, Len(slice)), indent, output)
        ELSE LET start == (CHOOSE i \in found : \A j \in found : i <= j) - 1
             IN  addEscaped(slice, start + 2, indent,
                     pushText(pushMarkup(addLines(SubSeq(slice, offset + 1, start),
                                                  indent, output),
                                         <<" ">>, <<>>),
                              SubSeq(slice, start + 2, start + 2)))

\* node.children[0].position.start.column - 1
indentOf(raw, node) == node.children[1].start - lineFrom(raw, node.children[1].start)

\* the result of toAnnotated: the offset it returns, the output, and whether
\* it raised an Error
Annotated(offset, output, threw) ==
    [offset |-> offset, output |-> output, threw |-> threw]

\* output.pushMarkup("", interpretAs) after a call of toAnnotated
thenMarkup(r, interpretAs) ==
    IF r.threw THEN r
    ELSE [r EXCEPT !.output = pushMarkup(@, <<>>, interpretAs)]

\* the case "text" of the switch
annotateText(raw, node, indent, output) ==
    LET textLen == Len(node.value) + (Len(split(node.value)) - 1) * indent
        nodeLen == node.end - node.start
    IN  IF textLen < nodeLen
        THEN Annotated(node.end,
                       addEscaped(SubSeq(raw, node.start + 1, node.end), 0,
                                  indent, output),
                       FALSE)
        ELSE IF textLen > nodeLen
        THEN Annotated(node.start, output, TRUE)
        ELSE Annotated(node.end, addLines(node.value, indent, output), FALSE)

RECURSIVE toAnnotatedFrom(_, _, _, _, _, _)
RECURSIVE annotateNode(_, _, _, _, _)

\* the switch over node.type, after the padding (a link of the tree always
\* has children)
annotateNode(raw, node, offset, output, indent) ==
    CASE node.type = "text" -> annotateText(raw, node, indent, output)
      [] node.type \in {"strong", "emphasis", "delete", "footnoteDefinition",
                        "linkReference", "link"} ->
             toAnnotatedFrom(raw, node.children, 1, offset, output, indent)
      [] node.type \in {"list", "heading"} ->
             thenMarkup(toAnnotatedFrom(raw, node.children, 1, offset, output, indent),
                        <<"\n", "\n">>)
      [] node.type = "inlineCode" ->
             Annotated(node.end, pushMarkup(output, emptyMarkup(node), node.value),
                       FALSE)
      [] node.type = "blockquote" ->
             IF Len(node.children) > 0
             THEN toAnnotatedFrom(raw, node.children, 1, offset, output,
                                  indentOf(raw, node))
             ELSE Annotated(offset, output, FALSE)
      [] node.type = "break" ->
             Annotated(node.end, pushMarkup(output, emptyMarkup(node), <<"\n">>),
                       FALSE)
      [] node.type = "paragraph" ->
             IF Len(node.children) > 0
             THEN thenMarkup(
                      toAnnotatedFrom(raw, node.children, 1, offset,
                                      pushMarkup(output, <<>>, <<"\n", "\n">>),
                                      indentOf(raw, node)),
                      <<"\n", "\n">>)
             ELSE Annotated(offset, pushMarkup(output, <<>>, <<"\n", "\n">>), FALSE)
      [] node.type = "listItem" ->
             IF Len(node.children) > 0
             THEN toAnnotatedFrom(raw, node.children, 1, offset,
                                  pushMarkup(output, <<>>, <<"bullet", " ">>),
                                  indentOf(raw, node))
             ELSE Annotated(offset, output, FALSE)
      [] node.type = "table" ->
             toAnnotatedFrom(raw, node.children, 1, offset,
                             pushMarkup(output, <<>>, <<"\n">>), indent)
      [] node.type = "tableRow" ->
             thenMarkup(toAnnotatedFrom(raw, node.children, 1, offset, output, indent),
                        <<"\n", "\n">>)
      [] node.type = "tableCell" ->
             thenMarkup(toAnnotatedFrom(raw, node.children, 1, offset, output, indent),
                        <<"\n">>)
      [] node.type = "thematicBreak" ->
             Annotated(node.end,
                       pushMarkup(output, emptyMarkup(node), <<"\n", "\n">>), FALSE)
      [] OTHER -> Annotated(offset, output, FALSE)

\* the loop of toAnnotated from the i-th node on
toAnnotatedFrom(raw, nodes, i, offset, output, indent) ==
    IF i > Len(nodes) THEN Annotated(offset, output, FALSE)
    ELSE LET node == nodes[i]
             padded == IF offset < node.start
                       THEN pushMarkup(output, Spaces(node.start - offset), undefined)
                       ELSE output
             r == annotateNode(raw, node, Max(offset, node.start), padded, indent)
         IN  IF r.threw THEN r
             ELSE toAnnotatedFrom(raw, nodes, i + 1, r.offset, r.output, indent)

toAnnotated(raw, nodes, offset, output, indent) ==
    toAnnotatedFrom(raw, nodes, 1, offset, output, indent)

(***************************************************************************)
(* The parser (remark-parse with remark-frontmatter and remark-gfm), for    *)
(* documents made of at most MaxBlocks of the blocks below, with a blank    *)
(* line between two blocks and with or without a line break at the end.     *)
(* Each block is given with the nodes the parser makes of it, at the        *)
(* offsets they have when the block starts the document.                    *)
(***************************************************************************)
MaxBlocks == 2

Block(raw, nodes) == [raw |-> raw, nodes |-> nodes]

\* the blocks of the model
Blocks ==
    {
      \* ab
      Block(<<"a", "b">>,
            <<Node("paragraph", 0, 2, <<>>, <<Node("text", 0, 2, <<"a", "b">>, <<>>)>>)>>),
      \* a (line break) b
      Block(<<"a", "\n", "b">>,
            <<Node("paragraph", 0, 3, <<>>, <<Node("text", 0, 3, <<"a", "\n", "b">>, <<>>)>>)>>),
      \* *a*
      Block(<<"*", "a", "*">>,
            <<Node("paragraph", 0, 3, <<>>,
                    <<Node("emphasis", 0, 3, <<>>, <<Node("text", 1, 2, <<"a">>, <<>>)>>)>>)>>),
      \* *a*b
      Block(<<"*", "a", "*", "b">>,
            <<Node("paragraph", 0, 4, <<>>,
                    <<Node("emphasis", 0, 3, <<>>, <<Node("text", 1, 2, <<"a">>, <<>>)>>),
                      Node("text", 3, 4, <<"b">>, <<>>)>>)>>),
      \* a\*b
      Block(<<"a", "\\", "*", "b">>,
            <<Node("paragraph", 0, 4, <<>>, <<Node("text", 0, 4, <<"a", "*", "b">>, <<>>)>>)>>),
      \* a \*b\* c
      Block(<<"a", " ", "\\", "*", "b", "\\", "*", " ", "c">>,
            <<Node("paragraph", 0, 9, <<>>,
                   <<Node("text", 0, 9, <<"a", " ", "*", "b", "*", " ", "c">>,
                          <<>>)>>)>>),
      \* a between two backticks
      Block(<<"backtick", "a", "backtick">>,
            <<Node("paragraph", 0, 3, <<>>, <<Node("inlineCode", 0, 3, <<"a">>, <<>>)>>)>>),
      \* # a
      Block(<<"#", " ", "a">>,
            <<Node("heading", 0, 3, <<>>, <<Node("text", 2, 3, <<"a">>, <<>>)>>)>>),
      \* - a
      Block(<<"-", " ", "a">>,
            <<Node("list", 0, 3, <<>>,
                    <<Node("listItem", 0, 3, <<>>,
                            <<Node("paragraph", 2, 3, <<>>,
                                    <<Node("text", 2, 3, <<"a">>, <<>>)>>)>>)>>)>>),
      \* - a (line break, two spaces) b
      Block(<<"-", " ", "a", "\n", " ", " ", "b">>,
            <<Node("list", 0, 7, <<>>,
                    <<Node("listItem", 0, 7, <<>>,
                            <<Node("paragraph", 2, 7, <<>>,
                                    <<Node("text", 2, 7, <<"a", "\n", "b">>, <<>>)>>)>>)>>)>>),
      \* This is a *test*.
      Block(<<"T", "h", "i", "s", " ", "i", "s", " ", "a", " ",
              "*", "t", "e", "s", "t", "*", ".">>,
            <<Node("paragraph", 0, 17, <<>>,
                   <<Node("text", 0, 10,
                          <<"T", "h", "i", "s", " ", "i", "s", " ", "a", " ">>,
                          <<>>),
                     Node("emphasis", 10, 16, <<>>,
                          <<Node("text", 11, 15, <<"t", "e", "s", "t">>, <<>>)>>),
                     Node("text", 16, 17, <<".">>, <<>>)>>)>>),
      \* - item one (line break) - item two
      Block(<<"-", " ", "i", "t", "e", "m", " ", "o", "n", "e", "\n",
              "-", " ", "i", "t", "e", "m", " ", "t", "w", "o">>,
            <<Node("list", 0, 21, <<>>,
                   <<Node("listItem", 0, 10, <<>>,
                          <<Node("paragraph", 2, 10, <<>>,
                                 <<Node("text", 2, 10,
                                        <<"i", "t", "e", "m", " ", "o", "n", "e">>,
                                        <<>>)>>)>>),
                     Node("listItem", 11, 21, <<>>,
                          <<Node("paragraph", 13, 21, <<>>,
                                 <<Node("text", 13, 21,
                                        <<"i", "t", "e", "m", " ", "t", "w", "o">>,
                                        <<>>)>>)>>)>>)>>),
      \* > a
      Block(<<">", " ", "a">>,
            <<Node("blockquote", 0, 3, <<>>,
                    <<Node("paragraph", 2, 3, <<>>, <<Node("text", 2, 3, <<"a">>, <<>>)>>)>>)>>),
      \* a fenced code block with the line b
      Block(<<"backtick", "backtick", "backtick", "\n", "b", "\n", "backtick", "backtick", "backtick">>,
            <<Node("code", 0, 9, <<"b">>, <<>>)>>),
      \* <i>
      Block(<<"<", "i", ">">>, <<Node("html", 0, 3, <<"<", "i", ">">>, <<>>)>>),
      \* [a]: b
      Block(<<"[", "a", "]", ":", " ", "b">>, <<Node("definition", 0, 6, <<>>, <<>>)>>),
      \* front matter with the line a; the document starts with it or has none
      Block(<<"-", "-", "-", "\n", "a", "\n", "-", "-", "-">>,
            <<Node("yaml", 0, 9, <<"a">>, <<>>)>>)
    }

\* the node at an offset moved by k
RECURSIVE shiftNode(_, _)
shiftNode(node, k) ==
    [node EXCEPT !.start = @ + k, !.end = @ + k,
                 !.children = [j \in 1..Len(node.children) |->
                                   shiftNode(node.children[j], k)]]

\* the text of the blocks, and the children of its root
RECURSIVE Layout(_, _, _, _)
Layout(blocks, i, raw, nodes) ==
    IF i > Len(blocks) THEN [raw |-> raw, nodes |-> nodes]
    ELSE LET sep == IF i = 1 THEN <<>> ELSE <<"\n", "\n">>
             at == Len(raw) + Len(sep)
         IN  Layout(blocks, i + 1, raw \o sep \o blocks[i].raw,
                    nodes \o [j \in 1..Len(blocks[i].nodes) |->
                                  shiftNode(blocks[i].nodes[j], at)])

\* the sequences of blocks the model parses: front matter comes first, and
\* two lists do not follow each other (the parser makes one list of them)
BlockLists ==
    {bs \in UNION {[1..n -> Blocks] : n \in 1..MaxBlocks} :
        /\ \A i \in 2..Len(bs) : bs[i].nodes[1].type # "yaml"
        /\ \A i \in 2..Len(bs) : ~(/\ bs[i].nodes[1].type = "list"
                                  /\ bs[i - 1].nodes[1].type = "list")}

\* the texts of the model, each with the children of its root
Parsed ==
    {[raw |-> Layout(bs, 1, <<>>, <<>>).raw \o end,
      root |-> Layout(bs, 1, <<>>, <<>>).nodes] :
        bs \in BlockLists, end \in {<<>>, <<"\n">>}}

(***************************************************************************)
(* parseAndAnnotate                                                         *)
(***************************************************************************)
\* input (the annotations before the last call of optimize), from and to
\* (the arguments of the last call of extractSlice) and slice (what it
\* returned) are history
NoAnnotator ==
    [raw |-> <<>>, root |-> <<>>, annotations |-> <<>>, offset |-> 0,
     status |-> "none", input |-> <<>>, from |-> 0, to |-> 0, slice |-> null,
     length |-> 0]

\* a text and its syntax tree, before parseAndAnnotate's call of toAnnotated
AnnotatorOf(parsed) ==
    [NoAnnotator EXCEPT !.raw = parsed.raw, !.root = parsed.root,
                        !.status = "parsed"]

\* the steps of the annotator leave the editor and the word lists alone
AnnotatorStep(a) ==
    /\ annotator' = a
    /\ UNCHANGED <<doc, underlines, ignored, dictionary, pending, isLoading,
                   auto, sync, modal, tab, overlap, event>>

\* toAnnotated(text, root.children, 0, annotations, 0); the offset it returns
\* is kept as history
parseAndAnnotate ==
    LET r == toAnnotated(annotator.raw, annotator.root, 0, <<>>, 0)
    IN  /\ annotator.status = "parsed"
        /\ AnnotatorStep([annotator EXCEPT
               !.annotations = r.output, !.offset = r.offset,
               !.status = IF r.threw THEN "failed" ELSE "annotated"])

\* an AnnotatedText constructed with the annotations
AnnotatedTextOf(annotations) ==
    [NoAnnotator EXCEPT !.annotations = annotations, !.status = "annotated"]

\* optimize(), a first and a second time
Optimize ==
    /\ annotator.status \in {"annotated", "optimized"}
    /\ AnnotatorStep([annotator EXCEPT
           !.input = annotator.annotations,
           !.annotations = optimize(annotator.annotations),
           !.status = IF @ = "annotated" THEN "optimized" ELSE "optimizedTwice"])

\* extractSlice(from, to)
ExtractSlice(from, to) ==
    /\ annotator.status \in {"annotated", "optimized"}
    /\ AnnotatorStep([annotator EXCEPT
           !.from = from, !.to = to,
           !.slice = extractSlice(annotator.annotations, from, to),
           !.status = "sliced"])

\* length() is called
Length ==
    /\ annotator.status \in {"annotated", "optimized"}
    /\ AnnotatorStep([annotator EXCEPT
           !.length = sourceLength(annotator.annotations),
           !.status = "measured"])

(***************************************************************************)
(* The state after construction, for a document and a dictionary, with the  *)
(* automatic check switched off or on                                       *)
(***************************************************************************)
Constructed(docs, dictionaries, shouldAutoCheck) ==
    /\ doc \in docs
    /\ underlines = EmptyBag
    /\ ignored = NoIgnored
    /\ dictionary \in dictionaries
    /\ pending = EmptyBag
    /\ isLoading = FALSE
    /\ auto = NoAuto(shouldAutoCheck)
    /\ sync = NoSync
    /\ modal = NoModal
    /\ tab = NoTab
    /\ overlap = NoOverlap
    /\ annotator = NoAnnotator
    /\ event = NoEvent

WholeDocument == [from |-> 0, to |-> 0]

(***************************************************************************)
(* SpecEdit: a document of letters is checked as a whole and edited.        *)
(***************************************************************************)
InitEdit == Constructed({<<"a", "a", "a">>}, {{}}, FALSE)

NextEdit ==
    \/ Editing /\ \E c \in Changes(doc, {<<>>, <<"a">>}) :
           \E sel \in {NoSel} \cup Carets(ApplyChange(doc, c)) : Edit(c, sel)
    \/ Editing /\ RunDetection(WholeDocument, -1)
    \/ Editing /\ \E req \in DOMAIN pending : \E server \in Responses(req.text, {Typo}) :
           CheckSucceeds(req, server, NoTree)

SpecEdit == InitEdit /\ [][NextEdit]_vars

(***************************************************************************)
(* SpecResponse: a document of two lines is checked, as a whole or by       *)
(* selection, while the user types and deletes; requests succeed or fail.   *)
(***************************************************************************)
InitResponse == Constructed({<<"a", "\n", "a">>}, {{}, {<<"a">>}}, FALSE)

NextResponse ==
    \/ Editing /\ \E c \in Keystrokes(doc, {<<"a">>}) : Edit(c, cursorAfter(c))
    \/ Editing /\ \E sel \in Ranges(doc) : \E lf \in ListFroms(doc, sel.from) :
           RunDetection(sel, lf)
    \/ Editing /\ \E req \in DOMAIN pending :
           \E server \in Responses(req.text, {Typo}), tree \in Trees(doc) :
               CheckSucceeds(req, server, tree)
    \/ Editing /\ \E req \in DOMAIN pending : CheckFails(req)

SpecResponse == InitResponse /\ [][NextResponse]_vars

(***************************************************************************)
(* SpecDuplicates: a document of one line is checked as a whole; the        *)
(* checker reports matches of two kinds, the host classifies the document.  *)
(***************************************************************************)
InitDuplicates == Constructed({<<"a", "a">>}, {{}, {<<"a">>}}, FALSE)

NextDuplicates ==
    \/ Editing /\ RunDetection(WholeDocument, -1)
    \/ Editing /\ \E req \in DOMAIN pending :
           \E server \in Responses(req.text, {Typo, Whitespace}), tree \in Trees(doc) :
               CheckSucceeds(req, server, tree)
    \/ Editing /\ \E req \in DOMAIN pending : CheckFails(req)

SpecDuplicates == InitDuplicates /\ [][NextDuplicates]_vars

(***************************************************************************)
(* SpecSynonyms: synonyms are requested for a selected word while the user  *)
(* types and deletes, and the document is checked as a whole.               *)
(***************************************************************************)
InitSynonyms == Constructed({<<"a", "a", "a">>}, {{}}, FALSE)

NextSynonyms ==
    \/ Editing /\ \E c \in Changes(doc, {<<>>, <<"a">>}) : Edit(c, cursorAfter(c))
    \/ Editing /\ \E sel \in Ranges(doc) : SynonymRequest(sel)
    \/ Editing /\ \E req \in DOMAIN pending :
           req.kind = "synonyms" /\ SynonymSucceeds(req, NoTree)
    \/ Editing /\ \E req \in DOMAIN pending : req.kind = "synonyms" /\ SynonymFails(req)
    \/ Editing /\ RunDetection(WholeDocument, -1)
    \/ Editing /\ \E req \in DOMAIN pending : \E server \in Responses(req.text, {Typo}) :
           req.kind = "check" /\ CheckSucceeds(req, server, NoTree)

SpecSynonyms == InitSynonyms /\ [][NextSynonyms]_vars

(***************************************************************************)
(* SpecIgnore: suggestions are ignored, the document is edited and checked  *)
(* again.                                                                   *)
(***************************************************************************)
InitIgnore == Constructed({<<"a", "a", "a">>}, {{}}, FALSE)

NextIgnore ==
    \/ Editing /\ \E c \in Keystrokes(doc, {<<"a">>}) :
           \E sel \in {NoSel, cursorAfter(c)} : Edit(c, sel)
    \/ Editing /\ RunDetection(WholeDocument, -1)
    \/ Editing /\ \E req \in DOMAIN pending :
           \E server \in Responses(req.text, {Whitespace}) :
               CheckSucceeds(req, server, NoTree)
    \/ Editing /\ \E u \in DOMAIN underlines : IgnoreSuggestion(u)

SpecIgnore == InitIgnore /\ [][NextIgnore]_vars

(***************************************************************************)
(* SpecAuto: the automatic check is switched on; the user types and deletes *)
(* single characters, time passes, the timer fires, requests are answered.  *)
(***************************************************************************)
InitAuto == Constructed({<<"a", "\n", "a">>, <<"\n">>}, {{}}, TRUE)

NextAuto ==
    \/ Editing /\ \E c \in Keystrokes(doc, {<<"a">>, <<"\n">>}) : Edit(c, cursorAfter(c))
    \/ Editing /\ \E c \in Changes(doc, {<<"b", "b">>}) :
                      c.from = c.to /\ Paste(c, cursorAfter(c))
    \/ Editing /\ Tick
    \/ Editing /\ \E lf \in ListFroms(doc, lineFrom(doc, auto.minRange)) : AutoCheckFires(lf)
    \/ Editing /\ \E req \in DOMAIN pending : CheckSucceeds(req, <<>>, NoTree)
    \/ Editing /\ \E req \in DOMAIN pending : CheckFails(req)

SpecAuto == InitAuto /\ [][NextAuto]_vars

(***************************************************************************)
(* Properties of an edit (SpecEdit)                                         *)
(***************************************************************************)
\* the net length delta of a change
delta(c) == Len(c.insert) - (c.to - c.from)

\* an underline moved by d
shifted(u, d) == [u EXCEPT !.from = @ + d, !.to = @ + d]

\* the edited span of the change lies entirely before the underline
editedBefore(c, u) == c.to <= u.from

\* the edited span of the change lies strictly inside the underline
editedInside(c, u) == u.from < c.from /\ c.to < u.to

\* the update carries a selection that touches the range
selectionTouches(tr, r) == tr.selection # NoSel /\ rangeOverlapping(r, tr.selection)

\* the observed step is a document change that the editor applied
EditApplied == event.kind = "edit" /\ ~event.threw

\* C1 (as amended): after a document change whose edited span lies entirely
\* before a stored underline, the underline is still stored with from and to
\* each moved by the net length delta of the change, provided the update
\* carries no selection that touches the moved range; when the update's
\* selection touches the moved range, no underline with that range is stored.
C1_ShiftedUnlessSelected ==
    EditApplied =>
        \A u \in DOMAIN event.before.underlines :
            LET v == shifted(u, delta(event.tr.changes))
            IN  editedBefore(event.tr.changes, u) =>
                    IF selectionTouches(event.tr, v)
                    THEN CountAt(underlines, v.from, v.to) = 0
                    ELSE CopiesIn(v, underlines) >= CopiesIn(u, event.before.underlines)

\* an edit before an underline with a selection away from it moved the
\* underline by a delta that is not zero
C1_Witness ==
    /\ EditApplied
    /\ \E u \in DOMAIN event.before.underlines :
           /\ editedBefore(event.tr.changes, u)
           /\ delta(event.tr.changes) # 0
           /\ event.tr.selection # NoSel
           /\ ~selectionTouches(event.tr, shifted(u, delta(event.tr.changes)))
           /\ shifted(u, delta(event.tr.changes)) \in DOMAIN underlines

\* C1 (as stated): after a document change whose edited span lies entirely
\* before a stored underline, the underline is still stored with from and to
\* each moved by the net length delta of the change.
C1_AsStated ==
    EditApplied =>
        \A u \in DOMAIN event.before.underlines :
            editedBefore(event.tr.changes, u) =>
                shifted(u, delta(event.tr.changes)) \in DOMAIN underlines

\* C2 (as stated): after a document change whose edited span lies strictly
\* inside a stored underline, with or without a selection, the underline
\* (at its mapped range) is no longer stored.
C2_AsStated ==
    EditApplied =>
        \A u \in DOMAIN event.before.underlines :
            editedInside(event.tr.changes, u) =>
                mapRange(event.tr.changes, u) \notin DOMAIN underlines

\* C2 (what the update does): after a document change whose edited span lies
\* strictly inside a stored underline, the underline is stored with its end
\* moved by the net length delta of the change, unless the update carries a
\* selection that touches the resulting range; then no underline with that
\* range is stored.
C2_StaysUnlessSelected ==
    EditApplied =>
        \A u \in DOMAIN event.before.underlines :
            LET v == [u EXCEPT !.to = @ + delta(event.tr.changes)]
            IN  editedInside(event.tr.changes, u) =>
                    IF selectionTouches(event.tr, v)
                    THEN CountAt(underlines, v.from, v.to) = 0
                    ELSE CopiesIn(v, underlines) >= CopiesIn(u, event.before.underlines)

\* an edit without a selection strictly inside an underline left it stored
C2_Witness ==
    /\ EditApplied
    /\ event.tr.selection = NoSel
    /\ \E u \in DOMAIN event.before.underlines :
           /\ editedInside(event.tr.changes, u)
           /\ [u EXCEPT !.to = @ + delta(event.tr.changes)] \in DOMAIN underlines

(***************************************************************************)
(* Properties of the store's bounds (SpecSynonyms)                          *)
(***************************************************************************)
\* C3 (as stated): in every reachable state every stored underline satisfies
\* 0 <= from <= to <= length of the document.
C3_AsStated ==
    \A u \in DOMAIN underlines :
        0 <= u.from /\ u.from <= u.to /\ u.to <= Len(doc)

\* the observed step applied a response of the checker
ResponseApplied == event.kind = "response" /\ ~event.threw

\* C3 (what applying a response does): after a response for the whole
\* document is applied, every stored underline lies inside the document; a
\* match whose to exceeds the length of the document is not stored, and
\* every other match is stored (of matches with one range, the first).
C3_ResponseWithinDocument ==
    (ResponseApplied /\ ~event.request.ranged /\ event.tr.tree = NoTree
         /\ dictionary = {} /\ ignored = NoIgnored) =>
        /\ \A u \in DOMAIN underlines : 0 <= u.from /\ u.from < u.to /\ u.to <= Len(doc)
        /\ \A i \in DOMAIN event.matches :
               LET m == event.matches[i]
               IN  IF m.to > Len(doc)
                   THEN m \notin DOMAIN underlines
                   ELSE CountAt(underlines, m.from, m.to) = 1
                        /\ (m \in DOMAIN underlines
                                \/ \E j \in 1..(i - 1) :
                                       /\ event.matches[j].from = m.from
                                       /\ event.matches[j].to = m.to)

\* a response held a match beyond the document and one inside it
C3_Witness ==
    /\ ResponseApplied
    /\ \E i, j \in DOMAIN event.matches :
           /\ event.matches[i].to > Len(doc)
           /\ event.matches[i] \notin DOMAIN underlines
           /\ event.matches[j] \in DOMAIN underlines

(***************************************************************************)
(* Properties of a response (SpecDuplicates, SpecResponse)                  *)
(***************************************************************************)

\* the positions of the addUnderline effects of a transaction
AddEffects(tr) == {i \in 1..Len(tr.effects) : tr.effects[i].type = "addUnderline"}

\* the effect passes the filters of the store other than the one on ranges
\* already seen in the update: its range is not ignored, both ends may be
\* decorated, its rule is allowed
passesFilters(e, tr) ==
    /\ <<e.from, e.to>> \notin ignored.ignoredRanges
    /\ canDecorate(tr.tree, e.from)
    /\ canDecorate(tr.tree, e.to)
    /\ isRuleAllowed(e, doc, tr.tree, dictionary)

sameRange(e, f) == e.from = f.from /\ e.to = f.to

\* the matches of the observed response that the store accepts: those that
\* pass the filters, but for each range the first of them only
acceptedMatches ==
    LET tr == event.tr
    IN  {underlineOf(tr.effects[i]) :
            i \in {k \in AddEffects(tr) :
                     /\ passesFilters(tr.effects[k], tr)
                     /\ \A j \in AddEffects(tr) :
                            (j < k /\ sameRange(tr.effects[j], tr.effects[k]))
                                => ~passesFilters(tr.effects[j], tr)}}

\* C4 (as amended): when one update carries two addUnderline insertions with
\* identical (from,to), at most one underline with that range is stored after
\* the update: exactly one when one of the update's insertions for that range
\* passes the store's other filters (range not ignored, both ends
\* decoratable, rule allowed), none otherwise.
C4_OnePerRange ==
    ResponseApplied =>
        \A i, j \in AddEffects(event.tr) :
            LET e == event.tr.effects[i]
            IN  (i < j /\ sameRange(e, event.tr.effects[j])) =>
                    CountAt(underlines, e.from, e.to) =
                        IF \E k \in AddEffects(event.tr) :
                               /\ sameRange(e, event.tr.effects[k])
                               /\ passesFilters(event.tr.effects[k], event.tr)
                        THEN 1 ELSE 0

\* an update carried two insertions with one range, both pass the other
\* filters, and one underline with the range is stored
C4_Witness ==
    /\ ResponseApplied
    /\ \E i, j \in AddEffects(event.tr) :
           /\ i < j
           /\ sameRange(event.tr.effects[i], event.tr.effects[j])
           /\ passesFilters(event.tr.effects[i], event.tr)
           /\ passesFilters(event.tr.effects[j], event.tr)
           /\ CountAt(underlines, event.tr.effects[i].from, event.tr.effects[i].to) = 1

\* C4 (as stated): when one update carries two addUnderline insertions with
\* identical (from,to), exactly one underline with that range is stored.
C4_AsStated ==
    ResponseApplied =>
        \A i, j \in AddEffects(event.tr) :
            (i < j /\ sameRange(event.tr.effects[i], event.tr.effects[j])) =>
                CountAt(underlines, event.tr.effects[i].from,
                        event.tr.effects[i].to) = 1

\* C5: applying a response for a range r leaves, of the underlines stored
\* before, exactly those that do not overlap r, and adds the accepted
\* matches, all of which overlap r; applying a response for the whole
\* document leaves the accepted matches alone.
C5_ClearThenInsert ==
    ResponseApplied =>
        LET r == event.request
            old == event.before.underlines
        IN  IF r.ranged
            THEN /\ underlines =
                        FilterBag(old, {u \in DOMAIN old : ~rangeOverlapping(u, r)})
                            (+) SetToBag(acceptedMatches)
                 /\ \A u \in acceptedMatches : rangeOverlapping(u, r)
            ELSE underlines = SetToBag(acceptedMatches)

\* a response for a range replaced an underline overlapping the range and
\* kept one that does not overlap it
C5_Witness ==
    /\ ResponseApplied
    /\ event.request.ranged
    /\ acceptedMatches # {}
    /\ \E u, v \in DOMAIN event.before.underlines :
           /\ rangeOverlapping(u, event.request)
           /\ u \notin DOMAIN underlines
           /\ ~rangeOverlapping(v, event.request)
           /\ v \in DOMAIN underlines

\* the matches of a response that runDetection keeps
keptMatches ==
    SelectSeq(event.matches, LAMBDA m : matchKept(m, event.before.doc,
                                                  event.before.dictionary))

\* C6: a response is applied by one transaction that holds the clear
\* followed by the insertions of all kept matches; the step that takes the
\* request from the requests in flight is the step after which the old
\* underlines of the checked range are gone and all accepted matches are
\* stored.
C6_OneUpdate ==
    ResponseApplied =>
        /\ event.tr.effects =
               <<IF event.request.ranged
                 THEN clearUnderlinesInRange(event.request)
                 ELSE clearAllUnderlines>>
               \o [i \in 1..Len(keptMatches) |-> addUnderline(keptMatches[i])]
        /\ pending = event.before.pending (-) SetToBag({event.request})
        /\ \A u \in acceptedMatches : CopiesIn(u, underlines) = 1
        /\ \A u \in DOMAIN underlines :
               (u \in DOMAIN event.before.underlines /\ u \notin acceptedMatches)
                   => event.request.ranged /\ ~rangeOverlapping(u, event.request)

\* a response with two accepted matches replaced stored underlines
C6_Witness ==
    /\ ResponseApplied
    /\ Cardinality(acceptedMatches) = 2
    /\ event.before.underlines # EmptyBag
    /\ underlines = SetToBag(acceptedMatches)

\* C7: when a check request fails, the store, the ignored spans and the
\* document are as before the failure, the failed request is no longer in
\* flight and no other request is; issuing a request changes none of them
\* either.
C7_FailureChangesNothing ==
    /\ event.kind = "failure" =>
           /\ underlines = event.before.underlines
           /\ ignored = event.before.ignored
           /\ doc = event.before.doc
           /\ pending = event.before.pending (-) SetToBag({event.request})
    /\ event.kind = "check" =>
           /\ underlines = event.before.underlines
           /\ ignored = event.before.ignored
           /\ doc = event.before.doc

\* a request failed while underlines were stored
C7_Witness ==
    /\ event.kind = "failure"
    /\ event.before.underlines # EmptyBag
    /\ underlines = event.before.underlines
    /\ pending = EmptyBag

(***************************************************************************)
(* Properties of the automatic check (SpecAuto)                             *)
(***************************************************************************)
\* the texts runDetection may look at for the range it is handed (one for
\* each classification of the range's start by the host)
textsOfRange(d, range) ==
    {sliceDoc(d, increaseSelection(d, range, lf).from,
              increaseSelection(d, range, lf).to) :
        lf \in ListFroms(d, range.from)}

\* C8 (as amended): with automatic checking on, an edit sends no request and
\* sets the timer anew; the timer fires once autoCheckDelay has passed since
\* the last edit, once for all edits made since it last fired; when it fires
\* runDetection is called once, which sends one request, or none when the
\* text of the range is blank.
C8_OneCheckPerBurst ==
    /\ (event.kind = "edit" /\ ~event.threw) =>
           /\ pending = event.before.pending
           /\ auto.debounceTimer = autoCheckDelay
    /\ event.kind = "tick" => pending = event.before.pending
    /\ event.kind = "autoCheck" =>
           /\ event.before.auto.idle = autoCheckDelay
           /\ event.before.auto.burst # <<>>
           /\ auto.debounceTimer = -1
           /\ auto.burst = <<>>
           /\ IF event.request = NoRequest
              THEN /\ pending = event.before.pending
                   /\ \E t \in textsOfRange(event.before.doc, event.range) :
                          isBlank(t)
              ELSE /\ pending = event.before.pending (+) SetToBag({event.request})
                   /\ event.request.text \in textsOfRange(event.before.doc, event.range)
                   /\ ~isBlank(event.request.text)
    /\ (auto.debounceTimer = -1) <=> (auto.burst = <<>>)

\* the timer fired for two edits and a request was sent
C8_Witness ==
    /\ event.kind = "autoCheck"
    /\ Len(event.before.auto.burst) = 2
    /\ event.request # NoRequest
    /\ pending = event.before.pending (+) SetToBag({event.request})

\* C8 (as stated): when the timer fires, exactly one request is sent.
C8_AsStated ==
    event.kind = "autoCheck" =>
        BagCardinality(pending) = BagCardinality(event.before.pending) + 1

\* the least from and the greatest to of the changed ranges of a burst
burstMin(burst) ==
    CHOOSE p \in {burst[i].from : i \in DOMAIN burst} :
        \A i \in DOMAIN burst : p <= burst[i].from

burstMax(burst) ==
    CHOOSE p \in {burst[i].to : i \in DOMAIN burst} :
        \A i \in DOMAIN burst : p >= burst[i].to

\* the line range of the document around two positions
linesAround(d, from, to) == [from |-> lineFrom(d, from), to |-> lineTo(d, to)]

\* C9: when the timer fires, the range handed to runDetection runs from the
\* start of the line of the least from to the end of the line of the
\* greatest to recorded for the edits made since the timer last fired.
C9_LatestRange ==
    event.kind = "autoCheck" =>
        event.range = linesAround(event.before.doc,
                                  burstMin(event.before.auto.burst),
                                  burstMax(event.before.auto.burst))

\* the timer fired for two edits, and the range is neither the one of the
\* first edit alone nor the one of the last edit alone
C9_Witness ==
    /\ event.kind = "autoCheck"
    /\ Len(event.before.auto.burst) = 2
    /\ LET b == event.before.auto.burst
       IN  /\ event.range # linesAround(event.before.doc, b[1].from, b[1].to)
           /\ event.range # linesAround(event.before.doc, b[2].from, b[2].to)
           /\ event.range = linesAround(event.before.doc, b[1].from, b[2].to)

(***************************************************************************)
(* Properties of ignored spans (SpecIgnore)                                 *)
(***************************************************************************)
\* C10: while a span is ignored, an update that carries an addUnderline for
\* the current (edit-remapped) range of the span stores no underline with
\* that range.
C10_IgnoredStaysRejected ==
    ~event.threw =>
        \A i \in AddEffects(event.tr) :
            LET e == event.tr.effects[i]
            IN  (\E m \in ignored.marks : sameRange(m, e)) =>
                    CountAt(underlines, e.from, e.to) = 0

\* a response proposed an underline for an ignored span that edits have
\* moved, and none is stored
C10_Witness ==
    /\ ResponseApplied
    /\ \E i \in AddEffects(event.tr), m \in ignored.marks :
           /\ sameRange(m, event.tr.effects[i])
           /\ m.origin # <<m.from, m.to>>
           /\ CountAt(underlines, m.from, m.to) = 0

(***************************************************************************)
(* Properties of the tooltip's 'Ignore suggestion' (SpecIgnore)             *)
(***************************************************************************)
\* the observed step is an 'Ignore suggestion' that the editor applied
IgnoreApplied == event.kind = "ignore" /\ ~event.threw

\* the range the observed 'Ignore suggestion' carries
ignoredRange == event.tr.effects[1]

\* C11 (as stated): ignoring an underline removes the underline with that
\* span from the store, adds an ignored span with the same range, and leaves
\* every other stored underline stored unchanged.
C11_AsStated ==
    IgnoreApplied =>
        /\ CountAt(underlines, ignoredRange.from, ignoredRange.to) = 0
        /\ <<ignoredRange.from, ignoredRange.to>> \in ignored.ignoredRanges
        /\ \A u \in DOMAIN event.before.underlines :
               ~sameRange(u, ignoredRange) =>
                   CopiesIn(u, underlines) = CopiesIn(u, event.before.underlines)

\* C11 (what the update does): ignoring an underline adds an ignored span
\* with its range and removes every stored underline whose range touches
\* that range (closed-interval test); the underlines that do not touch it
\* stay stored unchanged.
C11_IgnoreClearsTouching ==
    IgnoreApplied =>
        LET old == event.before.underlines
        IN  /\ underlines =
                   FilterBag(old, {u \in DOMAIN old : ~rangeOverlapping(u, ignoredRange)})
            /\ ignored.ignoredRanges =
                   {<<m.from, m.to>> : m \in event.before.ignored.marks}
                       \cup {<<ignoredRange.from, ignoredRange.to>>}
            /\ {<<m.from, m.to>> : m \in ignored.marks} = ignored.ignoredRanges

\* an 'Ignore suggestion' removed a second underline, one that starts where
\* the ignored one ends
C11_Witness ==
    /\ IgnoreApplied
    /\ \E v \in DOMAIN event.before.underlines :
           /\ v.from = ignoredRange.to
           /\ v \notin DOMAIN underlines

(***************************************************************************)
(* SpecClear: a document is checked as a whole, suggestions are ignored,    *)
(* the user types and deletes, and the suggestions are cleared.             *)
(***************************************************************************)
InitClear == Constructed({<<"a", "a", "a">>}, {{}}, FALSE)

NextClear ==
    \/ Editing /\ \E c \in Keystrokes(doc, {<<"a">>}) : Edit(c, cursorAfter(c))
    \/ Editing /\ RunDetection(WholeDocument, -1)
    \/ Editing /\ \E req \in DOMAIN pending :
           \E server \in Responses(req.text, {Whitespace}) :
               CheckSucceeds(req, server, NoTree)
    \/ Editing /\ \E u \in DOMAIN underlines : IgnoreSuggestion(u)
    \/ Editing /\ ClearSuggestions

SpecClear == InitClear /\ [][NextClear]_vars

(***************************************************************************)
(* Properties of 'Clear Suggestions' (SpecClear)                            *)
(***************************************************************************)
\* the observed step is a 'Clear Suggestions'
Cleared == event.kind = "clear"

C13_AsStated ==
    Cleared => ignored.ignoredRanges = {} /\ ignored.marks = {}

\* C13 (what the update does): 'Clear Suggestions' leaves the ignored spans
\* as they were, so that an addUnderline at an ignored span is rejected
\* after it as before.
C13_ClearKeepsIgnored ==
    Cleared =>
        /\ ignored = event.before.ignored
        /\ {<<m.from, m.to>> : m \in ignored.marks} = ignored.ignoredRanges

\* 'Clear Suggestions' was used while a span was ignored
C13_Witness ==
    /\ Cleared
    /\ event.before.ignored.ignoredRanges # {}
    /\ ignored.ignoredRanges = event.before.ignored.ignoredRanges

(***************************************************************************)
(* SpecDictionary: a document of two words is checked as a whole; the       *)
(* checker reports spelling and other matches; the user adds words to the   *)
(* personal dictionary and deletes characters.                              *)
(***************************************************************************)
InitDictionary == Constructed({<<"a", "b">>}, {{}}, FALSE)

NextDictionary ==
    \/ Editing /\ \E c \in Keystrokes(doc, {}) : Edit(c, cursorAfter(c))
    \/ Editing /\ RunDetection(WholeDocument, -1)
    \/ Editing /\ \E req \in DOMAIN pending :
           \E server \in Responses(req.text, {Typo, Whitespace}) :
               CheckSucceeds(req, server, NoTree)
    \/ Editing /\ \E u \in DOMAIN underlines : AddToDictionary(u)

SpecDictionary == InitDictionary /\ [][NextDictionary]_vars

(***************************************************************************)
(* Properties of the personal dictionary (SpecDictionary)                   *)
(***************************************************************************)
\* the text of the match is in the dictionary: the text the checker was
\* sent for the match, or the text now at the match's range
textInDictionary(m) ==
    \/ m.text \in dictionary
    \/ (m.to <= Len(doc) /\ sliceDoc(doc, m.from, m.to) \in dictionary)

\* C14: when a response is applied, a match of the category TYPOS whose text
\* is in the personal dictionary at that time is not stored; a match of
\* another category whose text is in the dictionary is stored, unless it
\* lies beyond the document or an earlier match of the response with the
\* same range is stored.
C14_DictionaryRejectsTyposOnly ==
    ResponseApplied =>
        \A i \in DOMAIN event.matches :
            LET m == event.matches[i]
            IN  /\ (m.categoryId = "TYPOS" /\ textInDictionary(m))
                       => m \notin DOMAIN underlines
                /\ (/\ m.categoryId # "TYPOS"
                    /\ textInDictionary(m)
                    /\ m.to <= Len(doc)
                    /\ \A j \in 1..(i - 1) :
                           sameRange(event.matches[j], m)
                               => event.matches[j] \notin DOMAIN underlines)
                       => m \in DOMAIN underlines

\* a response held a spelling match and another match for a word of the
\* dictionary: the first is not stored, the second is
C14_Witness ==
    /\ ResponseApplied
    /\ \E i, j \in DOMAIN event.matches :
           /\ event.matches[i].categoryId = "TYPOS"
           /\ event.matches[j].categoryId # "TYPOS"
           /\ event.matches[i].text = event.matches[j].text
           /\ event.matches[i].text \in dictionary
           /\ event.matches[i] \notin DOMAIN underlines
           /\ event.matches[j] \in DOMAIN underlines

(***************************************************************************)
(* SpecSync: the word lists are reconciled, in at most MaxPasses passes,    *)
(* from any three word lists; every remote call succeeds or fails.          *)
(***************************************************************************)
InitSync ==
    /\ doc = <<>>
    /\ underlines = EmptyBag
    /\ ignored = NoIgnored
    /\ dictionary = {}
    /\ pending = EmptyBag
    /\ isLoading = FALSE
    /\ auto = NoAuto(FALSE)
    /\ sync \in {SyncOf(local, lastSynced, remote) :
                    local \in SUBSET Words, lastSynced \in SUBSET Words,
                    remote \in SUBSET Words}
    /\ modal = NoModal
    /\ tab = NoTab
    /\ overlap = NoOverlap
    /\ annotator = NoAnnotator
    /\ event = NoEvent

NextSync ==
    \/ \E ok \in BOOLEAN : SyncWords(ok)
    \/ \E word \in Words, ok \in BOOLEAN : SyncWordsDel(word, ok)
    \/ \E word \in Words, ok \in BOOLEAN : SyncWordsAdd(word, ok)

SpecSync == InitSync /\ [][NextSync]_vars

(***************************************************************************)
(* Properties of the reconciliation (SpecSync)                              *)
(***************************************************************************)
\* the merged set of three word lists, in the words of the claim
mergedOf(o) ==
    (o.remote \ ((o.lastSynced \ o.local) \cap o.remote))
        \cup (o.local \ (o.lastSynced \ o.remote))

\* the word lists of the merge scenario
Scenario == Snapshot({"foo", "baz"}, {"foo", "bar"}, {"foo", "bar", "qux"})

\* the first pass completed
FirstPassFinished == sync.last = "finished" /\ sync.passes = 1

\* C15: a pass in which every remote call succeeds sets local and
\* lastSynced to
\*   (remote - ((lastSynced - local) \cap remote))
\*       \cup (local - (lastSynced - remote)),
\* having deleted remotely the words of (lastSynced - local) \cap remote and
\* added remotely the words of the merged set the remote lacked; for
\* lastSynced = {foo, bar}, local = {foo, baz}, remote = {foo, bar, qux} it
\* deletes bar, adds baz and stores {foo, baz, qux}.
C15_ThreeWayMerge ==
    FirstPassFinished =>
        LET o == sync.origin
        IN  /\ sync.local = mergedOf(o)
            /\ sync.lastSynced = mergedOf(o)
            /\ sync.deleted = (o.lastSynced \ o.local) \cap o.remote
            /\ sync.added = mergedOf(o) \ o.remote
            /\ sync.remote = (o.remote \ sync.deleted) \cup sync.added
            /\ o = Scenario =>
                   /\ sync.deleted = {"bar"}
                   /\ sync.added = {"baz"}
                   /\ sync.local = {"foo", "baz", "qux"}
                   /\ sync.lastSynced = {"foo", "baz", "qux"}

\* the pass of the merge scenario completed
C15_Witness ==
    /\ FirstPassFinished
    /\ sync.origin = Scenario
    /\ sync.local = {"foo", "baz", "qux"}
    /\ sync.remote = {"foo", "baz", "qux"}

\* the last remote call of a pass failed
PassAborted == sync.last = "aborted"

\* C16: when a remote call of a pass fails, the pass is over: no call of the
\* pass is left to make, local and lastSynced are as they were when the pass
\* began, and the remote list is the one the pass found, without the words
\* the pass had deleted and with the words it had added before the failure.
C16_AbortStoresNothing ==
    PassAborted =>
        /\ sync.pc = "idle"
        /\ sync.todo = {}
        /\ sync.local = sync.start.local
        /\ sync.lastSynced = sync.start.lastSynced
        /\ sync.remote = (sync.start.remote \ sync.deleted) \cup sync.added
        /\ sync.deleted \subseteq sync.start.remote
        /\ sync.added \cap sync.start.remote = {}

\* a pass failed after it had deleted a word remotely, with a merged set that
\* differs from local
C16_Witness ==
    /\ PassAborted
    /\ sync.deleted # {}
    /\ sync.remote # sync.start.remote
    /\ sync.local = sync.start.local
    /\ mergedOf(sync.start) # sync.local

\* C17: when a pass that failed after some of its remote calls is followed
\* by a pass in which every remote call succeeds, local, lastSynced and the
\* remote list all end as the merged set of the word lists the first pass
\* began with.
C17_SelfHealing ==
    (sync.last = "finished" /\ sync.passes = 2 /\ sync.aborts = 1) =>
        /\ sync.local = mergedOf(sync.origin)
        /\ sync.lastSynced = mergedOf(sync.origin)
        /\ sync.remote = mergedOf(sync.origin)

\* a pass completed after a pass that had failed between two remote
\* mutations
C17_Witness ==
    /\ sync.last = "finished"
    /\ sync.passes = 2
    /\ sync.aborts = 1
    /\ sync.start.remote # sync.origin.remote
    /\ sync.remote # sync.start.remote
    /\ sync.remote = mergedOf(sync.origin)

(***************************************************************************)
(* SpecStatus: a document with blank lines is checked, as a whole or by     *)
(* selection, also while earlier checks are in flight; every request is     *)
(* answered or fails in the end (the transport settles every request).      *)
(***************************************************************************)
InitStatus == Constructed({<<"a", "\n", "\n">>}, {{}}, FALSE)

\* a request in flight is settled
Settle ==
    \/ Editing /\ \E req \in DOMAIN pending :
           \E server \in Responses(req.text, {Typo}) :
               CheckSucceeds(req, server, NoTree)
    \/ Editing /\ \E req \in DOMAIN pending : CheckFails(req)

NextStatus ==
    \/ Editing /\ \E sel \in Ranges(doc) : RunDetectionConcurrently(sel, -1)
    \/ Settle

SpecStatus == InitStatus /\ [][NextStatus]_vars /\ WF_vars(Settle)

(***************************************************************************)
(* Properties of the status bar (SpecStatus)                                *)
(***************************************************************************)
\* no check request is in flight
AllSettled == \A req \in DOMAIN pending : req.kind # "check"

\* C18: whenever no check request is in flight (each has been answered, has
\* failed, or was not sent because its text was blank) the status bar is
\* not working; and while the behaviour is followed, a working status bar
\* leads to one that is not working.
C18_ReturnsToIdle ==
    /\ [](AllSettled => ~isLoading)
    /\ (isLoading /\ Unobserved) ~> (~isLoading \/ ~Unobserved)

\* the last of the requests in flight failed and the status bar is not
\* working
C18_Witness ==
    /\ event.kind = "failure"
    /\ pending = EmptyBag
    /\ ~isLoading

(***************************************************************************)
(* Properties of the 'Check Text' command (SpecResponse)                    *)
(***************************************************************************)
\* the observed step is a 'Check Text'
CheckCommand == event.kind = "check"

\* the request was sent: it has joined the requests in flight
requestSent ==
    /\ event.request # NoRequest
    /\ pending = event.before.pending (+) SetToBag({event.request})

\* nothing was sent
nothingSent ==
    /\ event.request = NoRequest
    /\ pending = event.before.pending
    /\ underlines = event.before.underlines

\* C19 (as amended): 'Check Text' with an empty selection sends the whole
\* document, and the application of the response clears all underlines;
\* with a selection that is not empty it sends the text of a range that
\* contains the selection, and the application of the response leaves every
\* underline stored that does not touch that range; in both cases nothing is
\* sent, and nothing cleared, when the text to check is blank.
C19_WholeOrSelection ==
    /\ CheckCommand =>
           LET sel == event.range
               d == event.before.doc
               req == event.request
           IN  IF sel.from = sel.to
               THEN IF isBlank(d) THEN nothingSent
                    ELSE /\ requestSent
                         /\ ~req.ranged
                         /\ req.text = d
               ELSE IF req = NoRequest
                    THEN /\ nothingSent
                         /\ \E t \in textsOfRange(d, sel) : isBlank(t)
                    ELSE /\ requestSent
                         /\ req.ranged
                         /\ req.from <= sel.from
                         /\ sel.to <= req.to
                         /\ req.text = sliceDoc(d, req.from, req.to)
                         /\ ~isBlank(req.text)
    /\ ResponseApplied =>
           IF event.request.ranged
           THEN \A u \in DOMAIN event.before.underlines :
                    ~rangeOverlapping(u, event.request) =>
                        CopiesIn(u, underlines) >= CopiesIn(u, event.before.underlines)
           ELSE underlines = SetToBag(acceptedMatches)

\* 'Check Text' with a selection sent a range that is larger than the
\* selection at both ends
C19_Witness ==
    /\ CheckCommand
    /\ requestSent
    /\ event.request.ranged
    /\ event.request.from < event.range.from
    /\ event.range.to < event.request.to

\* C19 (as stated): 'Check Text' with an empty selection sends the whole
\* document; with a selection that is not empty it sends a range that
\* contains the selection.
C19_AsStated ==
    CheckCommand =>
        /\ requestSent
        /\ IF event.range.from = event.range.to
           THEN ~event.request.ranged /\ event.request.text = event.before.doc
           ELSE /\ event.request.ranged
                /\ event.request.from <= event.range.from
                /\ event.range.to <= event.request.to

(***************************************************************************)
(* SpecAnnotate: a parsed text is annotated.                                *)
(***************************************************************************)
InitAnnotate ==
    /\ doc = <<>>
    /\ underlines = EmptyBag
    /\ ignored = NoIgnored
    /\ dictionary = {}
    /\ pending = EmptyBag
    /\ isLoading = FALSE
    /\ auto = NoAuto(FALSE)
    /\ sync = NoSync
    /\ modal = NoModal
    /\ tab = NoTab
    /\ overlap = NoOverlap
    /\ annotator \in {AnnotatorOf(parsed) : parsed \in Parsed}
    /\ event = NoEvent

NextAnnotate == parseAndAnnotate

SpecAnnotate == InitAnnotate /\ [][NextAnnotate]_vars

(***************************************************************************)
(* Properties of the annotator (SpecAnnotate)                               *)
(***************************************************************************)
\* the text was annotated without an Error
IsAnnotated == annotator.status = "annotated"

\* C20 (as stated): for every text the annotator accepts, the source lengths
\* of the segments sum to the length of the text.
C20_AsStated ==
    IsAnnotated => sourceLength(annotator.annotations) = Len(annotator.raw)

\* C20 (what the annotator does): the source lengths of the segments sum to
\* the offset toAnnotated returns, which does not exceed the length of the
\* text and falls short of it when the text ends with a line break.
C20_SumIsReturnedOffset ==
    IsAnnotated =>
        /\ sourceLength(annotator.annotations) = annotator.offset
        /\ annotator.offset <= Len(annotator.raw)
        /\ annotator.raw[Len(annotator.raw)] = "\n"
               => annotator.offset < Len(annotator.raw)

\* a text that ends with a code block after a paragraph was annotated, and
\* the segments stop where the code block starts
C20_Witness ==
    /\ IsAnnotated
    /\ Len(annotator.root) = 2
    /\ annotator.root[1].type = "paragraph"
    /\ annotator.root[2].type = "code"
    /\ annotator.root[2].end = Len(annotator.raw)
    /\ sourceLength(annotator.annotations) = annotator.root[2].start

(***************************************************************************)
(* SpecAnnotated: an AnnotatedText, made by the annotator of a document of  *)
(* one block or constructed with at most MaxSegments annotations, is        *)
(* optimized and sliced.                                                    *)
(***************************************************************************)
MaxSegments == 3

\* the annotations the constructed texts are made of
Segments ==
    {Annotation("text", t, undefined) :
         t \in {<<>>, <<"a">>, <<"a", "b">>, <<" ">>}}
      \cup {Annotation("markup", m, i) :
                m \in {<<>>, <<"*">>, <<"*", "*">>},
                i \in {undefined, <<>>, <<"\n">>, <<"x", "y">>}}

AnnotatedTexts == UNION {[1..n -> Segments] : n \in 0..MaxSegments}

InitAnnotated ==
    /\ doc = <<>>
    /\ underlines = EmptyBag
    /\ ignored = NoIgnored
    /\ dictionary = {}
    /\ pending = EmptyBag
    /\ isLoading = FALSE
    /\ auto = NoAuto(FALSE)
    /\ sync = NoSync
    /\ modal = NoModal
    /\ tab = NoTab
    /\ overlap = NoOverlap
    /\ annotator \in {AnnotatorOf(parsed) :
                          parsed \in {q \in Parsed : Len(q.root) = 1}}
                         \cup {AnnotatedTextOf(a) : a \in AnnotatedTexts}
    /\ event = NoEvent

\* the reference flattening: the texts and the interpretAs values, one after
\* the other
RECURSIVE flatten(_)
flatten(annotations) ==
    IF annotations = <<>> THEN <<>>
    ELSE (IF Head(annotations).kind = "text" THEN Head(annotations).content
          ELSE interpreted(Head(annotations)))
         \o flatten(Tail(annotations))

\* the arguments of extractSlice reach to the end of the segments, in the
\* source and as they are interpreted
NextAnnotated ==
    \/ parseAndAnnotate
    \/ Optimize
    \/ Length
    \/ \E from, to \in 0..(sourceLength(annotator.annotations)
                               + interpretedLength(annotator.annotations)) :
           from <= to /\ ExtractSlice(from, to)

SpecAnnotated == InitAnnotated /\ [][NextAnnotated]_vars

(***************************************************************************)
(* Properties of AnnotatedText (SpecAnnotated)                              *)
(***************************************************************************)
\* extractSlice was called
Sliced == annotator.status = "sliced"

\* C21 (as stated): for every AnnotatedText and every from <= to within the
\* interpreted stream, extractSlice(from, to) is the trimmed substring
\* [from, to) of the reference flattening.
C21_AsStated ==
    (Sliced /\ annotator.to <= Len(flatten(annotator.annotations))) =>
        annotator.slice =
            trim(SubSeq(flatten(annotator.annotations), annotator.from + 1,
                        annotator.to))

\* C21 (what extractSlice does): for an AnnotatedText of text segments alone
\* extractSlice(from, to) is the trimmed substring [from, to) of the
\* flattening, and null when to lies beyond it or there is no segment.
C21_TextOnly ==
    (Sliced /\ \A i \in 1..Len(annotator.annotations) :
                   annotator.annotations[i].kind = "text") =>
        annotator.slice =
            IF /\ annotator.annotations # <<>>
               /\ annotator.to <= Len(flatten(annotator.annotations))
            THEN trim(SubSeq(flatten(annotator.annotations), annotator.from + 1,
                             annotator.to))
            ELSE null

\* a slice over the second of two text segments was extracted
C21_Witness ==
    /\ Sliced
    /\ Len(annotator.annotations) = 2
    /\ \A i \in 1..2 : annotator.annotations[i].kind = "text"
    /\ annotator.from >= Len(annotator.annotations[1].content)
    /\ annotator.from < annotator.to
    /\ annotator.slice # null
    /\ annotator.slice # <<>>

\* optimize was called, once or twice
Optimized == annotator.status \in {"optimized", "optimizedTwice"}

\* C22: optimize changes neither length() (the total source length) nor the
\* interpreted content of the segments, and a second optimize changes
\* nothing.
C22_OptimizeCompacts ==
    /\ Optimized =>
           /\ sourceLength(annotator.annotations) = sourceLength(annotator.input)
           /\ flatten(annotator.annotations) = flatten(annotator.input)
    /\ annotator.status = "optimizedTwice" =>
           annotator.annotations = annotator.input

\* the annotations of a document were optimized twice, and are fewer than
\* the annotator made
C22_Witness ==
    /\ annotator.status = "optimizedTwice"
    /\ annotator.raw # <<>>
    /\ Len(annotator.annotations)
           < Len(toAnnotated(annotator.raw, annotator.root, 0, <<>>, 0).output)
    /\ \E i \in 1..Len(annotator.annotations) :
           /\ annotator.annotations[i].kind = "markup"
           /\ annotator.annotations[i].content # <<>>
           /\ annotator.annotations[i].interpretAs # undefined

(***************************************************************************)
(* Properties of the annotator's text nodes (SpecAnnotate)                  *)
(***************************************************************************)
\* the text a \*b\* c, and what it is read as
Escaped == <<"a", " ", "\\", "*", "b", "\\", "*", " ", "c">>

Unescaped == <<"a", " ", "*", "b", "*", " ", "c">>

\* the document is the paragraph a \*b\* c, and was annotated
EscapedAnnotated ==
    /\ IsAnnotated
    /\ annotator.raw = Escaped
    /\ Len(annotator.root) = 1
    /\ annotator.root[1].children[1].value = Unescaped

\* C23 (as stated): annotating a text node with backslash escapes of
\* punctuation yields interpreted content without the escaping backslashes,
\* each backslash a markup of one character interpreted as the empty string.
C23_AsStated ==
    EscapedAnnotated =>
        /\ flatten(annotator.annotations) = <<"\n", "\n">> \o Unescaped \o <<"\n", "\n">>
        /\ \E i \in 1..Len(annotator.annotations) :
               /\ annotator.annotations[i].kind = "markup"
               /\ Len(annotator.annotations[i].content) = 1
               /\ annotator.annotations[i].interpretAs = <<>>

\* C23 (what the annotator does): the text node becomes one text segment
\* that holds the source with its backslashes.
C23_BackslashesKept ==
    EscapedAnnotated =>
        annotator.annotations =
            <<Annotation("markup", <<>>, <<"\n", "\n">>),
              Annotation("text", Escaped, undefined),
              Annotation("markup", <<>>, <<"\n", "\n">>)>>

\* the paragraph a \*b\* c was annotated, and its text went through the
\* branch for escapes: the value of the node is shorter than its span
C23_Witness ==
    /\ EscapedAnnotated
    /\ Len(annotator.root[1].children[1].value)
           < annotator.root[1].children[1].end - annotator.root[1].children[1].start
    /\ "\\" \in {flatten(annotator.annotations)[i] :
                     i \in 1..Len(flatten(annotator.annotations))}

(***************************************************************************)
(* Properties of the annotator for a paragraph and a list (SpecAnnotate)    *)
(***************************************************************************)
\* the source: This is a *test*., a blank line, - item one, - item two
EndToEndSource ==
    <<"T", "h", "i", "s", " ", "i", "s", " ", "a", " ", "*", "t", "e", "s",
      "t", "*", ".", "\n", "\n", "-", " ", "i", "t", "e", "m", " ", "o",
      "n", "e", "\n", "-", " ", "i", "t", "e", "m", " ", "t", "w", "o">>

\* the stream expected of it
EndToEndExpected ==
    <<"T", "h", "i", "s", " ", "i", "s", " ", "a", " ", "t", "e", "s", "t",
      ".", "\n", "\n", "bullet", " ", "i", "t", "e", "m", " ", "o", "n",
      "e", "\n", "bullet", " ", "i", "t", "e", "m", " ", "t", "w", "o">>

\* the stream the annotator makes of it
EndToEndStream ==
    <<"\n", "\n", "T", "h", "i", "s", " ", "i", "s", " ", "a", " ", "t",
      "e", "s", "t", ".", "\n", "\n", "bullet", " ", "\n", "\n", "i", "t",
      "e", "m", " ", "o", "n", "e", "\n", "\n", "bullet", " ", "\n", "\n",
      "i", "t", "e", "m", " ", "t", "w", "o", "\n", "\n", "\n", "\n">>

\* the source was annotated
EndToEndAnnotated == IsAnnotated /\ annotator.raw = EndToEndSource

\* the text occurs in the stream
occursIn(text, stream) ==
    \E k \in 0..(Len(stream) - Len(text)) :
        SubSeq(stream, k + 1, k + Len(text)) = text

\* a match on the word test, reported at the source offsets of its segment,
\* lies on the word test of the source, inside the emphasis markers
TestAttributed ==
    \E i \in 1..Len(annotator.annotations) :
        /\ annotator.annotations[i] = Annotation("text", <<"t", "e", "s", "t">>, undefined)
        /\ sourceLength(SubSeq(annotator.annotations, 1, i - 1)) = 11
        /\ SubSeq(annotator.raw, 12, 15) = <<"t", "e", "s", "t">>
        /\ annotator.raw[11] = "*"
        /\ annotator.raw[16] = "*"

\* C24 (as stated): the interpreted stream of the source contains
\* 'This is a test.', a blank line, and the two items each after a bullet,
\* one line each, and a match on 'test' maps back to the source offsets of
\* 'test' inside the emphasis markers.
C24_AsStated ==
    EndToEndAnnotated =>
        /\ occursIn(EndToEndExpected, flatten(annotator.annotations))
        /\ TestAttributed

\* C24 (what the annotator does): each item's text stands in a paragraph of
\* its own, a blank line after the bullet and after the text; the match on
\* 'test' maps back to the source offsets of 'test'.
C24_ItemsAreParagraphs ==
    EndToEndAnnotated =>
        /\ flatten(annotator.annotations) = EndToEndStream
        /\ TestAttributed

\* the source was annotated, with a bullet before each of the two items
C24_Witness ==
    /\ EndToEndAnnotated
    /\ Cardinality({i \in 1..Len(annotator.annotations) :
                        annotator.annotations[i] =
                            Annotation("markup", <<>>, <<"bullet", " ">>)}) = 2
    /\ TestAttributed

(***************************************************************************)
(* SpecInterleave: a document of two lines is checked, as a whole or by     *)
(* selection, and synonyms are requested, while the user deletes characters *)
(* between a request and its response.                                      *)
(***************************************************************************)
InitInterleave == Constructed({<<"a", "\n", "b">>}, {{}}, FALSE)

NextInterleave ==
    \/ Editing /\ \E c \in Keystrokes(doc, {}) : Edit(c, cursorAfter(c))
    \/ Editing /\ \E sel \in Ranges(doc) : RunDetection(sel, -1)
    \/ Editing /\ \E req \in DOMAIN pending : \E server \in Responses(req.text, {Typo}) :
           req.kind = "check" /\ CheckSucceeds(req, server, NoTree)
    \/ Editing /\ \E sel \in Ranges(doc) : SynonymRequest(sel)
    \/ Editing /\ \E req \in DOMAIN pending :
           req.kind = "synonyms" /\ SynonymSucceeds(req, NoTree)

SpecInterleave == InitInterleave /\ [][NextInterleave]_vars

(***************************************************************************)
(* Properties of responses that arrive after edits (SpecInterleave)         *)
(***************************************************************************)
\* the underline lies on the text its match was computed for
accurate(u) == sliceDoc(doc, u.from, u.to) = u.text

\* C25 (as stated): in every reachable state, also when the document was
\* edited between a request and the application of its response, the text
\* of the document at each stored underline is the text of its match.
C25_AsStated == \A u \in DOMAIN underlines : accurate(u)

\* a response to a check or synonym request was applied
Answered ==
    /\ event.kind \in {"response", "synonymsResponse"}
    /\ ~event.threw

\* the text the request was sent with still stands where it was taken from
requestTextStands ==
    sliceDoc(doc, event.request.from, event.request.from + Len(event.request.text))
        = event.request.text

\* C25 (what the code does): the underlines of a response lie on the text
\* of their matches when the document still holds the text the request was
\* sent with, at the place it was taken from.
C25_AccurateWhenTextStands ==
    (Answered /\ requestTextStands) =>
        \A i \in 1..Len(event.matches) :
            \A u \in DOMAIN underlines :
                (u.from = event.matches[i].from /\ u.to = event.matches[i].to
                     /\ u.text = event.matches[i].text) => accurate(u)

\* a response for the first line was applied after the second line was
\* edited, and left an underline
C25_Witness ==
    /\ Answered
    /\ requestTextStands
    /\ event.request.ranged
    /\ doc # event.before.doc \/ doc # <<"a", "\n", "b">>
    /\ \E u \in DOMAIN underlines :
           u.from = event.matches[1].from /\ u.to = event.matches[1].to

(***************************************************************************)
(* SpecAccept: a document of three letters is checked as a whole, and the   *)
(* user accepts a replacement (empty, as long as the underlined text, or    *)
(* longer) with the cursor in exactly one underline.                        *)
(***************************************************************************)
InitAccept == Constructed({<<"a", "b", "c">>}, {{}}, FALSE)

NextAccept ==
    \/ Editing /\ RunDetection(WholeDocument, -1)
    \/ Editing /\ \E req \in DOMAIN pending : \E server \in Responses(req.text, {Typo}) :
           CheckSucceeds(req, server, NoTree)
    \/ Editing /\ \E cursorOffset \in 0..Len(doc), u \in DOMAIN underlines :
           \E replacement \in {<<>>, <<"x">>, <<"x", "x">>} :
               /\ u.from <= cursorOffset
               /\ cursorOffset <= u.to
               /\ SumCopies(underlines,
                            {v \in DOMAIN underlines :
                                 v.from <= cursorOffset /\ cursorOffset <= v.to}) = 1
               /\ AcceptSuggestion(u, replacement)

SpecAccept == InitAccept /\ [][NextAccept]_vars

(***************************************************************************)
(* Properties of accepting a replacement (SpecAccept)                       *)
(***************************************************************************)
\* a replacement was accepted
Accepted == event.kind = "accept" /\ ~event.threw

\* the range of the underline that was replaced
replacedRange == [from |-> event.tr.changes.from, to |-> event.tr.changes.to]

\* the underlines stored before, other than the replaced one, that did not
\* touch it
untouchedOthers ==
    {u \in DOMAIN event.before.underlines : ~rangeOverlapping(u, replacedRange)}

\* the underline is stored at the position the edit moved it to
keptRemapped(u) ==
    /\ mapRange(event.tr.changes, u) \in DOMAIN underlines
    /\ underlines[mapRange(event.tr.changes, u)] >= event.before.underlines[u]

\* the replaced underline is not stored any more
replacedRemoved ==
    \A u \in DOMAIN underlines :
        \A v \in DOMAIN event.before.underlines :
            (v.from = replacedRange.from /\ v.to = replacedRange.to) =>
                u # mapRange(event.tr.changes, v)

\* C26 (as stated): accepting a replacement removes the underline under the
\* cursor, and every other underline that did not overlap it is still
\* stored at its remapped position, whatever the lengths.
C26_AsStated ==
    Accepted => (replacedRemoved /\ \A u \in untouchedOthers : keptRemapped(u))

\* C26 (what the code does): the replaced underline is removed, and another
\* underline that did not touch it is still stored at its remapped position
\* unless that position touches the range the replaced underline had before
\* the edit, in which case it is removed.
C26_KeptUnlessMovedOntoOldRange ==
    Accepted =>
        /\ replacedRemoved
        /\ \A u \in untouchedOthers :
               IF rangeOverlapping(mapRange(event.tr.changes, u), replacedRange)
               THEN mapRange(event.tr.changes, u) \notin DOMAIN underlines
               ELSE keptRemapped(u)

\* a longer replacement was accepted while another underline, not touching
\* the replaced one, was stored behind it, and that underline moved
C26_Witness ==
    /\ Accepted
    /\ Len(event.tr.changes.insert)
           > event.tr.changes.to - event.tr.changes.from
    /\ \E u \in untouchedOthers :
           /\ u.from > replacedRange.to
           /\ mapRange(event.tr.changes, u) # u
           /\ keptRemapped(u)

(***************************************************************************)
(* Properties of typing next to an underline (SpecEdit)                     *)
(***************************************************************************)
\* text was inserted, and the caret left directly after it
Typed ==
    /\ EditApplied
    /\ event.tr.changes.from = event.tr.changes.to
    /\ event.tr.selection = cursorAfter(event.tr.changes)

\* C27 (as stated): an insertion typed at the from position or at the to
\* position of an underline, with the caret left directly after the inserted
\* text, removes that underline in the same update.
C27_AsStated ==
    Typed =>
        \A u \in DOMAIN event.before.underlines :
            (event.tr.changes.from \in {u.from, u.to}) =>
                mapRange(event.tr.changes, u) \notin DOMAIN underlines

\* C27 (what the update does): an insertion typed at the from position of an
\* underline removes it; an insertion typed at its to position leaves it
\* stored with the range it had.
C27_FromRemovesToKeeps ==
    Typed =>
        \A u \in DOMAIN event.before.underlines :
            /\ event.tr.changes.from = u.from =>
                   mapRange(event.tr.changes, u) \notin DOMAIN underlines
            /\ event.tr.changes.from = u.to =>
                   /\ mapRange(event.tr.changes, u) = u
                   /\ u \in DOMAIN underlines
                   /\ underlines[u] >= event.before.underlines[u]

\* text was typed at the end of an underline, which is still stored, and
\* text was typed at the start of another, which is not
C27_Witness ==
    /\ Typed
    /\ \E u \in DOMAIN event.before.underlines :
           event.tr.changes.from = u.to /\ u \in DOMAIN underlines
    /\ \E u \in DOMAIN event.before.underlines :
           /\ event.tr.changes.from = u.from
           /\ mapRange(event.tr.changes, u) \notin DOMAIN underlines

(***************************************************************************)
(* Properties of the range of the automatic check (SpecAuto)                *)
(***************************************************************************)
\* the timer fired
TimerFired == event.kind = "autoCheck"

\* the range that is checked: the one of the request, or, when the text is
\* blank and nothing is sent, the one handed to runDetection
checkedRange ==
    IF event.request # NoRequest
    THEN [from |-> event.request.from, to |-> event.request.to]
    ELSE event.range

\* the character at the position lies in the checked range
covered(q) == checkedRange.from <= q /\ q + 1 <= checkedRange.to

\* C28 (as stated): when the timer fires, the line-expanded range contains
\* the current position of every character inserted during the burst, also
\* when a later edit of the burst inserted or deleted text before an earlier
\* one.  The position is taken to be contained when it lies between the two
\* ends, the ends included.
C28_AsStated ==
    TimerFired =>
        \A q \in event.before.auto.inserted :
            checkedRange.from <= q /\ q <= checkedRange.to

\* C28 (what the handler does): the range contains the characters the last
\* edit of the burst inserted; a character of an earlier edit that a later
\* edit moved lies in it when an offset recorded for the burst still falls
\* on its line.
C28_LastEditCovered ==
    TimerFired =>
        LET burst == event.before.auto.burst
            last == burst[Len(burst)]
        IN  /\ \A q \in last.from..(last.to - 1) : covered(q)
            /\ \A q \in event.before.auto.inserted :
                   (\E i \in DOMAIN burst :
                        /\ lineFrom(event.before.doc, burst[i].from)
                               <= lineFrom(event.before.doc, q)
                        /\ lineTo(event.before.doc, q + 1)
                               <= lineTo(event.before.doc, burst[i].to))
                       => covered(q)

\* the timer fired for two edits; the second was a paste before the
\* character the first had inserted, and that character lies behind the range
C28_Witness ==
    /\ TimerFired
    /\ Len(event.before.auto.burst) = 2
    /\ event.before.auto.burst[2].to - event.before.auto.burst[2].from = 2
    /\ \E q \in event.before.auto.inserted :
           /\ q >= event.before.auto.burst[2].to
           /\ q > checkedRange.to

(***************************************************************************)
(* Properties of the stored ranges                                          *)
(***************************************************************************)
\* C29 (as stated): in every reachable state no two stored underlines have
\* the same (from, to), also when they were inserted by different updates or
\* moved by edits.
C29_AsStated ==
    \A u \in BagToSet(underlines) : CountAt(underlines, u.from, u.to) = 1

\* no two underlines of the bag have the same (from, to)
distinctRanges(B) == \A u \in BagToSet(B) : CountAt(B, u.from, u.to) = 1

\* C29 (what the code does): an update that applies a check response to
\* underlines of distinct ranges leaves underlines of distinct ranges; the
\* update that adds a synonym marker stores it whatever is stored at its range.
C29_DistinctAfterResponse ==
    /\ (event.kind = "response" /\ distinctRanges(event.before.underlines))
           => distinctRanges(underlines)
    /\ (event.kind = "synonymsResponse" /\ ~event.threw)
           => CountAt(underlines, event.request.from, event.request.to)
                  = CountAt(event.before.underlines, event.request.from,
                            event.request.to) + 1

\* a synonym marker was added over the one underline stored at its range
C29_Witness ==
    /\ event.kind = "synonymsResponse"
    /\ distinctRanges(event.before.underlines)
    /\ CountAt(event.before.underlines, event.request.from, event.request.to) = 1
    /\ CountAt(underlines, event.request.from, event.request.to) = 2

(***************************************************************************)
(* SpecModal: the dictionary modal is opened, words are added and removed,  *)
(* it is closed, and the reconciliations it starts run meanwhile.           *)
(***************************************************************************)
InitModal ==
    /\ doc = <<>>
    /\ underlines = EmptyBag
    /\ ignored = NoIgnored
    /\ dictionary = {}
    /\ pending = EmptyBag
    /\ isLoading = FALSE
    /\ auto = NoAuto(FALSE)
    /\ sync \in {SyncOf(local, lastSynced, remote) :
                    local \in SUBSET {"foo", "qux"},
                    lastSynced \in SUBSET {"foo", "qux"},
                    remote \in SUBSET {"foo", "qux"}}
    /\ modal = NoModal
    /\ tab = NoTab
    /\ overlap = NoOverlap
    /\ annotator = NoAnnotator
    /\ event = NoEvent

NextModal ==
    \/ onOpen
    \/ \E newWord \in {"baz", "foo"} : addWord(newWord)
    \/ \E word \in Words : removeWord(word)
    \/ refresh
    \/ onClose
    \/ passDue /\ \E ok \in BOOLEAN : SyncWords(ok)
    \/ \E word \in Words, ok \in BOOLEAN : SyncWordsDel(word, ok)
    \/ \E word \in Words, ok \in BOOLEAN : SyncWordsAdd(word, ok)

SpecModal == InitModal /\ [][NextModal]_vars

(***************************************************************************)
(* Properties of the dictionary modal (SpecModal)                           *)
(***************************************************************************)
\* C30 (as stated): a word added in the modal while the synchronization
\* started on opening it is under way is in settings.dictionary after the
\* modal is closed, however the add and the end of that synchronization
\* are ordered.
C30_AsStated == modal.closed => modal.added \subseteq modal.stored

\* C30 (what the modal does): the word is in settings.dictionary as onClose
\* stores it unless the synchronization ended after the add with a changed
\* list, which the callback then put in the place of the modal's words.
C30_KeptUnlessListReplaced ==
    /\ modal.closed =>
           \A word \in modal.added :
               word \in modal.stored <=> word \notin modal.replaced
    /\ modal.replaced # {} => sync.passes >= 1 /\ ~modal.awaiting

\* the modal was closed without a word that was added while the
\* synchronization was under way
C30_Witness ==
    /\ modal.closed
    /\ \E word \in modal.added : word \notin modal.stored /\ word \in modal.replaced

(***************************************************************************)
(* Further properties of the reconciliation (SpecSync)                      *)
(***************************************************************************)
\* two passes ran and every remote call of both succeeded
BothPassesFinished == sync.last = "finished" /\ sync.passes = 2 /\ sync.aborts = 0

\* C31: after a pass in which every remote call succeeded, local, lastSynced
\* and the remote list are the same set; a pass that follows it at once adds
\* and deletes nothing remotely and leaves the three sets as they were.
C31_FixedPoint ==
    /\ sync.last = "finished" =>
           sync.local = sync.lastSynced /\ sync.local = sync.remote
    /\ BothPassesFinished =>
           /\ sync.deleted = {}
           /\ sync.added = {}
           /\ Snapshot(sync.local, sync.lastSynced, sync.remote) = sync.start

\* a second pass completed after a first one that had deleted and added
\* words remotely and changed local
C31_Witness ==
    /\ BothPassesFinished
    /\ sync.origin.local # sync.local
    /\ sync.origin.remote # sync.remote
    /\ sync.origin.lastSynced # sync.lastSynced
    /\ sync.start.local = sync.local

\* C32: in a pass in which every remote call succeeds, deletions win and
\* additions survive: the merged set has no word of lastSynced that local or
\* the remote list lacks, and it has every word of local or of the remote
\* list that is not in lastSynced.
C32_DeletionsWinAdditionsSurvive ==
    FirstPassFinished =>
        LET o == sync.origin
        IN  /\ \A word \in o.lastSynced :
                   (word \notin o.local \/ word \notin o.remote)
                       => word \notin sync.local
            /\ \A word \in (o.local \cup o.remote) \ o.lastSynced :
                   word \in sync.local

\* a pass completed that dropped a word deleted locally, a word deleted
\* remotely, and kept a word added locally and a word added remotely
C32_Witness ==
    /\ FirstPassFinished
    /\ (sync.origin.lastSynced \ sync.origin.local) \cap sync.origin.remote # {}
    /\ (sync.origin.lastSynced \ sync.origin.remote) \cap sync.origin.local # {}
    /\ (sync.origin.local \ sync.origin.lastSynced) \ sync.origin.remote # {}
    /\ (sync.origin.remote \ sync.origin.lastSynced) \ sync.origin.local # {}
    /\ Cardinality(sync.local) = 2

(***************************************************************************)
(* SpecSettings: the settings tab is shown, an endpoint is picked, a URL is *)
(* typed, the slider of the delay is moved.                                 *)
(***************************************************************************)
TypedUrls ==
    {<<>>, <<"/">>, <<"http://localhost:8081">>, <<"https://your-custom-url.com">>,
     <<"https://your-custom-url.com", "/v2/check", "/">>,
     endpoints.standard.url, endpoints.standard.url \o <<"/">>,
     endpoints.premium.url \o <<"/v2/check", "/">>}

InitSettings ==
    /\ doc = <<>>
    /\ underlines = EmptyBag
    /\ ignored = NoIgnored
    /\ dictionary = {}
    /\ pending = EmptyBag
    /\ isLoading = FALSE
    /\ auto = NoAuto(FALSE)
    /\ sync = NoSync
    /\ modal = NoModal
    /\ tab = NoTab
    /\ overlap = NoOverlap
    /\ annotator = NoAnnotator
    /\ event = NoEvent

NextSettings ==
    \/ display
    \/ \E value \in DOMAIN endpoints : dropdownChanged(value)
    \/ \E value \in TypedUrls : inputChanged(value)
    \/ \E value \in 0..autoCheckDelayMax : sliderChanged(value)

SpecSettings == InitSettings /\ [][NextSettings]_vars

(***************************************************************************)
(* Properties of the delay of the automatic check (SpecSettings)            *)
(***************************************************************************)
\* C33 (as stated): after any operations of the settings tab (the dropdown
\* of the endpoint, a typed URL that is the one of another endpoint, the
\* slider of the delay), autoCheckDelay lies between the minimum delay of
\* the endpoint that is selected and 5000 ms.
C33_AsStated ==
    tab.shown =>
        /\ minDelay(endpoints[endpointFromUrl(tab.serverUrl)]) <= tab.autoCheckDelay
        /\ tab.autoCheckDelay <= autoCheckDelayMax

\* C33 (what the tab does): autoCheckDelay lies between the limit the slider
\* was last given and 5000 ms; display and the dropdown give the slider the
\* minimum delay of the endpoint, a typed URL leaves the limit as it is.
C33_WithinSliderLimits ==
    tab.shown =>
        /\ tab.limit <= tab.autoCheckDelay
        /\ tab.autoCheckDelay <= autoCheckDelayMax
        /\ tab.limit \in {minDelay(endpoints[e]) : e \in DOMAIN endpoints}
        /\ tab.dropdown = endpointFromUrl(tab.serverUrl)
               => tab.limit <= minDelay(endpoints[tab.dropdown])
        /\ tab.limit # minDelay(endpoints[endpointFromUrl(tab.serverUrl)])
               => tab.limit = minDelay(endpoints.custom)

\* the URL of the standard endpoint was typed with the delay of the custom
\* endpoint
C33_Witness ==
    /\ tab.shown
    /\ tab.serverUrl = endpoints.standard.url
    /\ tab.disabled
    /\ tab.dropdown = "standard"
    /\ tab.limit = minDelay(endpoints.custom)
    /\ tab.autoCheckDelay = minDelay(endpoints.custom)

(***************************************************************************)
(* Properties of the bursts of the automatic check (SpecAuto)               *)
(***************************************************************************)
\* the timer had fired before
FiredBefore == event.before.auto.earlier.from # Infinity

\* C34: when the timer has fired, the two offsets are reset; the range of the
\* check of a later burst is computed from the edits made after the timer
\* fired, not from the offsets recorded for the bursts before.
C34_ResetAfterFire ==
    /\ TimerFired => auto.minRange = Infinity /\ auto.maxRange = -Infinity
    /\ (TimerFired /\ FiredBefore) =>
           /\ event.before.auto.minRange = burstMin(event.before.auto.burst)
           /\ event.before.auto.maxRange = burstMax(event.before.auto.burst)
           /\ event.range = linesAround(event.before.doc,
                                        burstMin(event.before.auto.burst),
                                        burstMax(event.before.auto.burst))

\* the timer fired for a second burst, and the range of its check lies
\* behind an offset recorded for the first
C34_Witness ==
    /\ TimerFired
    /\ FiredBefore
    /\ event.before.auto.earlier.to < event.range.from
    /\ event.request # NoRequest

(***************************************************************************)
(* SpecMatching: a document is checked, the underlines of the matches of    *)
(* one category are cleared.                                                *)
(***************************************************************************)
InitMatching == Constructed({<<"a", "b">>}, {{}}, FALSE)

NextMatching ==
    \/ Editing /\ \E sel \in Ranges(doc) : RunDetection(sel, -1)
    \/ Editing /\ \E req \in DOMAIN pending :
           \E server \in Responses(req.text, {Typo, Whitespace}) :
               CheckSucceeds(req, server, NoTree)
    \/ Editing /\ \E categoryId \in {Typo.categoryId, Whitespace.categoryId} :
           ClearMatching(categoryId)

SpecMatching == InitMatching /\ [][NextMatching]_vars

(***************************************************************************)
(* Properties of clearMatchingUnderlines (SpecMatching)                     *)
(***************************************************************************)
\* the underlines of the matches of a category were cleared
MatchingCleared == event.kind = "clearMatching"

\* C35: clearMatching removes every stored underline whose match satisfies
\* the predicate and leaves every underline whose match does not satisfy it
\* stored, with its range and its match.
C35_ClearsMatchingOnly ==
    MatchingCleared =>
        LET categoryId == event.tr.effects[1].categoryId
            before == event.before.underlines
        IN  /\ \A u \in DOMAIN underlines : u.categoryId # categoryId
            /\ \A u \in DOMAIN before :
                   u.categoryId # categoryId
                       => CopiesIn(u, underlines) = CopiesIn(u, before)
            /\ DOMAIN underlines \subseteq DOMAIN before

\* underlines of two categories were stored, one at the range of another;
\* those of one category were removed and the others are stored
C35_Witness ==
    /\ MatchingCleared
    /\ \E u, v \in DOMAIN event.before.underlines :
           /\ u.categoryId = event.tr.effects[1].categoryId
           /\ v.categoryId # u.categoryId
           /\ u.from = v.from
           /\ u \notin DOMAIN underlines
           /\ v \in DOMAIN underlines
    /\ Cardinality(DOMAIN underlines) < Cardinality(DOMAIN event.before.underlines)

(***************************************************************************)
(* SpecOverlap: rangeOverlapping is called for any two ranges of offsets up *)
(* to MaxOffset, those with from > to among them.                           *)
(***************************************************************************)
InitOverlap ==
    /\ doc = <<>>
    /\ underlines = EmptyBag
    /\ ignored = NoIgnored
    /\ dictionary = {}
    /\ pending = EmptyBag
    /\ isLoading = FALSE
    /\ auto = NoAuto(FALSE)
    /\ sync = NoSync
    /\ modal = NoModal
    /\ tab = NoTab
    /\ annotator = NoAnnotator
    /\ overlap \in {[NoOverlap EXCEPT !.first = first, !.second = second] :
                       first \in [from : 0..MaxOffset, to : 0..MaxOffset],
                       second \in [from : 0..MaxOffset, to : 0..MaxOffset]}
    /\ event = NoEvent

\* the function is called for the two ranges, in both orders
CompareRanges ==
    /\ overlap.status = "none"
    /\ overlap' = [overlap EXCEPT
           !.status = "compared",
           !.result = rangeOverlapping(overlap.first, overlap.second),
           !.swapped = rangeOverlapping(overlap.second, overlap.first)]
    /\ UNCHANGED <<doc, underlines, ignored, dictionary, pending, isLoading,
                   auto, sync, modal, tab, annotator, event>>

NextOverlap == CompareRanges

SpecOverlap == InitOverlap /\ [][NextOverlap]_vars

(***************************************************************************)
(* Properties of rangeOverlapping (SpecOverlap)                             *)
(***************************************************************************)
\* C36: rangeOverlapping gives the same for its two arguments in either
\* order, and for ranges with from <= to it is true exactly when the closed
\* intervals meet (a.from <= b.to and b.from <= a.to); a range of no width
\* at either end of a marker overlaps it.
C36_ClosedIntervalsMeet ==
    overlap.status = "compared" =>
        LET a == overlap.first
            b == overlap.second
        IN  /\ overlap.result = overlap.swapped
            /\ (a.from <= a.to /\ b.from <= b.to) =>
                   (overlap.result <=> (a.from <= b.to /\ b.from <= a.to))
            /\ (a.from <= a.to /\ b.from = b.to /\ b.from \in {a.from, a.to})
                   => overlap.result

\* a range of no width at the end of a marker was found to overlap it
C36_Witness ==
    /\ overlap.status = "compared"
    /\ overlap.first.from < overlap.first.to
    /\ overlap.second.from = overlap.first.to
    /\ overlap.second.to = overlap.second.from
    /\ overlap.result
    /\ overlap.swapped

(***************************************************************************)
(* Properties of length() (SpecAnnotated)                                   *)
(***************************************************************************)
\* length() was called
Measured == annotator.status = "measured"

\* the texts and the markups, one after the other
RECURSIVE sourceOf(_)
sourceOf(annotations) ==
    IF annotations = <<>> THEN <<>>
    ELSE Head(annotations).content \o sourceOf(Tail(annotations))

\* C37 (as stated): length() returns the sum of the interpreted lengths of
\* the segments (the length of the text of a text segment, the length of
\* interpretAs or 0 for a markup segment), the length of the stream the
\* checker sees, not the sum of the source lengths.
C37_AsStated ==
    Measured => annotator.length = Len(flatten(annotator.annotations))

\* C37 (what length() does): it returns the sum of the source lengths, the
\* length of the text of a text segment and the length of the markup of a
\* markup segment, whatever interpretAs is.
C37_SourceLength ==
    Measured =>
        /\ annotator.length = Len(sourceOf(annotator.annotations))
        /\ annotator.length =
               Len(flatten(annotator.annotations))
                   + Len(sourceOf(SelectSeq(annotator.annotations,
                                            LAMBDA a : a.kind = "markup")))
                   - interpretedLength(annotator.annotations)

\* length() was called for segments whose stream is longer than their source
C37_Witness ==
    /\ Measured
    /\ annotator.length < Len(flatten(annotator.annotations))
    /\ \E i \in DOMAIN annotator.annotations :
           /\ annotator.annotations[i].kind = "markup"
           /\ Len(interpreted(annotator.annotations[i]))
                  > Len(annotator.annotations[i].content)

(***************************************************************************)
(* Properties of the value a pass returns (SpecSync)                        *)
(***************************************************************************)
\* C38: a pass returns true exactly when the number of words of the merged
\* set differs from the number of words local had before the pass.
C38_ChangedIsSizeDifference ==
    sync.last = "finished" =>
        /\ sync.local = mergedOf(sync.start)
        /\ sync.changed <=>
               Cardinality(sync.local) # Cardinality(sync.start.local)

\* a pass returned false for a merged set of other words than local had, and
\* as many
C38_Witness ==
    /\ sync.last = "finished"
    /\ ~sync.changed
    /\ sync.local # sync.start.local
    /\ Cardinality(sync.local) = Cardinality(sync.start.local)
    /\ sync.passes = 1

(***************************************************************************)
(* Properties of the recorded offsets when the document shrinks (SpecAuto)  *)
(***************************************************************************)
\* C39 (as stated): when the timer fires, the two recorded offsets lie within
\* 0 and the length of the document, also when a later edit of the burst
\* deleted text and made the document shorter than an offset recorded before.
C39_AsStated ==
    TimerFired =>
        /\ 0 <= event.before.auto.minRange
        /\ event.before.auto.minRange <= Len(event.before.doc)
        /\ 0 <= event.before.auto.maxRange
        /\ event.before.auto.maxRange <= Len(event.before.doc)

\* the greatest length the document had after an edit of the burst
longest(burst) ==
    CHOOSE n \in {burst[i].size : i \in DOMAIN burst} :
        \A i \in DOMAIN burst : n >= burst[i].size

\* C39 (what the handler does): the least offset lies within the document;
\* the greatest lies within the longest document of the burst, and the line
\* looked up for it is the one the end of the document lies on when the
\* offset is behind that end.
C39_WithinLongestDocument ==
    TimerFired =>
        LET a == event.before.auto
            d == event.before.doc
        IN  /\ 0 <= a.minRange /\ a.minRange <= Len(d)
            /\ a.minRange <= a.maxRange
            /\ a.maxRange <= longest(a.burst)
            /\ a.maxRange > Len(d) => event.range.to = Len(d)

\* the timer fired after the last edit of the burst deleted the end of the
\* document, and the greatest offset lies behind the end
C39_Witness ==
    /\ TimerFired
    /\ Len(event.before.auto.burst) = 2
    /\ event.before.auto.burst[2].size < event.before.auto.burst[1].size
    /\ event.before.auto.maxRange > Len(event.before.doc)

====
